---- MODULE Spec2Model ----
(***************************************************************************)
(* kitops: the task supervisor (lib.rs), the scheduled task                *)
(* (task/scheduled.rs), the workload pipeline (workload.rs), the command   *)
(* runner (actions.rs) and the error classification (errors.rs).           *)
(*                                                                         *)
(* Two specifications share the module:                                    *)
(*   Spec     the supervisor loop over the scheduled tasks, their workers, *)
(*            the clock and the state store;                               *)
(*   SpecRun  one call of GitWorkload::perform, for every configuration    *)
(*            and every outcome of its collaborators (URL provider, Git    *)
(*            gateway, child processes, watchers, file system).            *)
(***************************************************************************)
EXTENDS Integers, Sequences, FiniteSets, TLC

(* ------------------------------ bounds -------------------------------- *)

\* number of configured tasks; the slice order is 1, 2, ...
NumTasks == 2
\* number of distinct commits the upstream branch can point at
NumCommits == 2
\* the wall clock runs from 0 to MaxTime
MaxTime == 3
\* most output chunks one reader delivers for one command
MaxOut == 1
\* most commands a workload is configured with
MaxActions == 2
\* most chunks the child of the command studied step by step writes
MaxChunks == 2
BufSize == 2
MaxBytes == 3

Tasks == 1..NumTasks
NullSha == 0
Commits == 1..NumCommits
Shas == {NullSha} \cup Commits

\* the poll interval of task t, in clock units (interval > 0)
Interval(t) == t
\* the number of commands task t is configured with
NumActions(t) == ((t - 1) % MaxActions) + 1

(* ------------------------------ errors -------------------------------- *)

\* GitOpsError values are tuples: the variant's name, then its fields.
ActionFailed(task, action) == <<"ActionFailed", task, action>>
NotifyError(msg) == <<"NotifyError", msg>>
ActionError == <<"ActionError">>
WorkDir == <<"WorkDir">>
SavingState == <<"SavingState">>
SerdeState == <<"SerdeState">>
\* the errors of the Git gateway: clone, open, fetch
GitErrors == {<<"InitRepo">>, <<"OpenRepo">>, <<"FetchError">>}
\* the errors of the hosted provider, from auth_url and from its watcher
GitHubErrors == {<<"GitHubNetworkError">>}

\* std::sync::mpsc::SendError: the receiving end of a channel is gone
SendError == <<"SendError">>

\* format!("{}", err): the message of an error
Display(err) == <<"msg", err>>

\* the mutant of is_fatal: every error aborts the process
is_fatal_all(err) == TRUE

is_fatal(err) ==
    IF err[1] = "ActionFailed" THEN FALSE ELSE TRUE

(* ------------------------------ events -------------------------------- *)

Changes(task, prev, new) == <<"Changes", task, prev, new>>
ActionOutput(name, stream) == <<"ActionOutput", name, stream>>
ActionExit(name, code) == <<"ActionExit", name, code>>
Success(task, sha) == <<"Success", task, sha>>
Failure(task, action, sha) == <<"Failure", task, action, sha>>
Error(task, msg, sha) == <<"Error", task, msg, sha>>
Timeout(name) == <<"Timeout", name>>

Streams == {"StdOut", "StdErr"}
TerminalKinds == {"Success", "Failure", "Error"}

\* format!("{}|{}", self.config.name, action.id())
ActionName(t, i) == <<t, "|", i>>

(* ------------------------------- sink --------------------------------- *)

NoErr == <<"None">>

\* the events the github watcher posts a commit status for
StatusKinds == {"Changes", "Success", "Failure", "Error"}

\* What the watchers can return for an event of a kind: the watcher that
\* forwards every event to the logging channel fails when the channel is
\* closed, and the github watcher returns the provider's error for the
\* events it posts a status for.
WatcherErrors(kind) ==
    {NotifyError(Display(SendError))}
    \cup (IF kind \in StatusKinds THEN GitHubErrors ELSE {})

\* every error a watcher can return
AllWatcherErrors == UNION {WatcherErrors(kind) : kind \in StatusKinds}

\* One delivery of event e through the serializing sink: the event reaches
\* the watchers in order and the first error, if any, is returned.
sink(e) ==
    {[ev |-> e, err |-> w] : w \in {NoErr} \cup WatcherErrors(e[1])}

(* --------------------------- command runner --------------------------- *)

\* what a child writes: at most MaxOut chunks (reads of up to 4096 bytes),
\* each on one of its two streams
Outputs == UNION {[1..k -> Streams] : k \in 0..MaxOut}

\* the number of chunks of `out` written on `stream`
Count(out, stream) == Cardinality({i \in 1..Len(out) : out[i] = stream})

\* the chunks of `out` up to the no-th of StdOut and the ne-th of StdErr
RECURSIVE Keep(_, _, _)
Keep(out, no, ne) ==
    IF out = <<>> THEN <<>>
    ELSE IF Head(out) = "StdOut"
    THEN IF no > 0 THEN <<Head(out)>> \o Keep(Tail(out), no - 1, ne)
         ELSE Keep(Tail(out), no, ne)
    ELSE IF ne > 0 THEN <<Head(out)>> \o Keep(Tail(out), no, ne - 1)
         ELSE Keep(Tail(out), no, ne)

\* One reader thread on a stream that carries k chunks: it passes n chunks to
\* the sink and ends with EOF (NoErr), with a read error, or because the
\* sink returned an error for its n-th chunk.
emit_data(k) ==
    {[n |-> k, err |-> e] : e \in {NoErr, ActionError}}
    \cup {[n |-> j, err |-> w] : j \in 1..k, w \in WatcherErrors("ActionOutput")}

\* the ways the events s of readers nobody waits for fall before (pre) and
\* after (late) the moment their spawner moves on; a reader that was joined
\* (only StdErr's can be left behind, if stdOutJoined) has nothing late
Splits(s, stdOutJoined) ==
    {[pre |-> SubSeq(s, 1, k), late |-> SubSeq(s, k + 1, Len(s))] :
        k \in {j \in 0..Len(s) :
                 stdOutJoined => \A i \in (j + 1)..Len(s) : s[i][3] = "StdErr"}}

\* Both readers of one command that writes `out`, as run_action joins
\* them: out_t.join()? first, then err_t.join()?. [evs: the events that
\* reached the sink before the joins returned, in order, err: the error the
\* joins yield, late: the events the stderr reader delivers afterwards, when
\* stdout's error made run_action return without joining it]
ReadersOf(name, out) ==
    UNION {
        LET kept == Keep(out, o.n, e.n)
            evs == [i \in 1..Len(kept) |-> ActionOutput(name, kept[i])]
        IN  IF o.err # NoErr
            THEN {[evs |-> sp.pre, err |-> o.err, late |-> sp.late] :
                    sp \in Splits(evs, TRUE)}
            ELSE {[evs |-> evs, err |-> e.err, late |-> <<>>]} :
        o \in emit_data(Count(out, "StdOut")),
        e \in emit_data(Count(out, "StdErr"))}

\* both readers of one command, whatever it writes
Readers(name) ==
    UNION {ReadersOf(name, out) : out \in Outputs}

\* the readers' output when run_action returns without joining either: what
\* reached the sink before, and what they deliver afterwards
ReaderPrefixes(name) ==
    UNION {Splits(r.evs \o r.late, FALSE) : r \in Readers(name)}

ActionSuccess == <<"Ok", "Success">>
ActionFailure == <<"Ok", "Failure">>
Err(e) == <<"Err", e>>

\* What one call of run_action leaves:
\* [r: the Result, evs: the events that reached the sink before it returned,
\* late: the events readers left behind deliver afterwards, how: the step
\* that ended the call (spawn, wait, exit, kill, timeout), code: the child's
\* exit code]
Ran(r, evs, late, how, code) ==
    [r |-> r, evs |-> evs, late |-> late, how |-> how, code |-> code]

\* the child exited with `code` and the poll saw it: join, ActionExit, result
RunExited(name, code) ==
    UNION {
        IF both.err # NoErr
        THEN {Ran(Err(both.err), both.evs, both.late, "exit", code)}
        ELSE {Ran(IF d.err # NoErr THEN Err(d.err)
                  ELSE IF code = 0 THEN ActionSuccess ELSE ActionFailure,
                  Append(both.evs, d.ev), <<>>, "exit", code) :
                 d \in sink(ActionExit(name, code))} :
        both \in Readers(name)}

\* the deadline passed before the child exited and kill succeeded
RunTimedOut(name) ==
    UNION {
        IF both.err # NoErr
        THEN {Ran(Err(both.err), both.evs, both.late, "timeout", -1)}
        ELSE {Ran(IF d.err # NoErr THEN Err(d.err) ELSE ActionFailure,
                  Append(both.evs, d.ev), <<>>, "timeout", -1) :
                 d \in sink(Timeout(name))} :
        both \in Readers(name)}

\* Every way one call of run_action can go.
run_action(name) ==
    \* command.spawn() fails
    {Ran(Err(ActionError), <<>>, <<>>, "spawn", -1)}
    \* child.try_wait() fails: the readers are left behind, the child unreaped
    \cup {Ran(Err(ActionError), p.pre, p.late, "wait", -1) :
            p \in ReaderPrefixes(name)}
    \cup RunExited(name, 0)
    \cup RunExited(name, 1)
    \* child.kill() fails
    \cup {Ran(Err(ActionError), p.pre, p.late, "kill", -1) :
            p \in ReaderPrefixes(name)}
    \cup RunTimedOut(name)

(* ------------------------------ workload ------------------------------ *)

None == <<"None">>
Some(x) == <<"Some", x>>

\* the mutant of run_actions: a command that returns Failure does not stop
\* the sequence
RECURSIVE run_actions_keep_going(_, _, _)
run_actions_keep_going(t, i, n) ==
    IF i > n
    THEN {[r |-> <<"Ok", None>>, evs |-> <<>>, late |-> <<>>, children |-> <<>>]}
    ELSE LET rests == run_actions_keep_going(t, i + 1, n) IN
         UNION {
            LET c == <<[name |-> ActionName(t, i), how |-> o.how,
                        code |-> o.code, r |-> o.r]>>
            IN  IF o.r \in {ActionSuccess, ActionFailure}
                THEN {[r |-> IF o.r = ActionFailure
                             THEN <<"Ok", Some(ActionName(t, i))>> ELSE rest.r,
                       evs |-> o.evs \o rest.evs, late |-> rest.late,
                       children |-> c \o rest.children] : rest \in rests}
                ELSE {[r |-> o.r, evs |-> o.evs, late |-> o.late,
                       children |-> c]} :
            o \in run_action(ActionName(t, i))}

\* GitWorkload::run_actions from command i on, for a workload of n commands:
\* [r: Ok(None) | Ok(Some(name)) | Err(e), evs, late, children: how the call
\* of run_action ended for each command tried, in order]
RECURSIVE run_actions_from(_, _, _)
run_actions_from(t, i, n) ==
    IF i > n
    THEN {[r |-> <<"Ok", None>>, evs |-> <<>>, late |-> <<>>, children |-> <<>>]}
    ELSE LET rests == run_actions_from(t, i + 1, n) IN
         UNION {
            LET c == <<[name |-> ActionName(t, i), how |-> o.how,
                        code |-> o.code, r |-> o.r]>>
            IN  IF o.r = ActionSuccess
                THEN {[r |-> rest.r, evs |-> o.evs \o rest.evs,
                       late |-> rest.late,
                       children |-> c \o rest.children] : rest \in rests}
                ELSE IF o.r = ActionFailure
                THEN {[r |-> <<"Ok", Some(ActionName(t, i))>>, evs |-> o.evs,
                       late |-> <<>>, children |-> c]}
                ELSE {[r |-> o.r, evs |-> o.evs, late |-> o.late,
                       children |-> c]} :
            o \in run_action(ActionName(t, i))}

\* the mutant of run_actions: a workload without commands counts as failed
run_actions_needs_commands(t, n) ==
    IF n = 0
    THEN {[r |-> <<"Ok", Some(ActionName(t, 0))>>, evs |-> <<>>,
           late |-> <<>>, children |-> <<>>]}
    ELSE run_actions_from(t, 1, n)

run_actions(t, n) == run_actions_from(t, 1, n)

OkSha(sha) == <<"Ok", sha>>
Panicked == <<"Panic">>

\* What one call of perform leaves:
\* [r: the worker's Result (or the panic that ended it), evs: the events
\* passed to the sink by the run and by the readers it left behind, in
\* order, children: how run_action ended for each
\* command tried, fetched: whether the Git phase obtained a commit, new: that
\* commit, changes: whether Changes was passed to the sink and what the sink
\* returned for it, removed: whether workdir was deleted, werr: whether the
\* sink returned a watcher's error]
Outcome(r, evs, children, fetched, new, changes, removed, werr) ==
    [r |-> r, evs |-> evs, children |-> children, fetched |-> fetched,
     new |-> new, changes |-> changes, removed |-> removed, werr |-> werr]

\* perform returns (or panics) before the Git phase obtained a commit
Early(r) ==
    Outcome(r, <<>>, <<>>, FALSE, NullSha, "none", FALSE, FALSE)

\* the mutant of the last two lines of perform: the result of
\* remove_dir_all is dropped
Cleanup_unchecked(new, removed) == OkSha(new)

\* std::fs::remove_dir_all(&workdir).map_err(GitOpsError::WorkDir)? ; Ok(new_sha)
Cleanup(new, removed) ==
    IF removed THEN OkSha(new) ELSE Err(WorkDir)

\* the mutant of the match on run_actions' result: no terminal event
TerminalEvent_timeout(t, new, r) == Timeout(ActionName(t, 0))

\* the terminal event perform emits for what run_actions returned
TerminalEvent(t, new, r) ==
    IF r = <<"Ok", None>> THEN Success(t, new)
    ELSE IF r[1] = "Ok" THEN Failure(t, r[2][2], new)
    ELSE Error(t, Display(r[2]), new)

\* the mutant of the match's early returns: the work directory is removed
\* before perform returns a command's failure
Matched_cleans_up(t, prev, new, ra, w, removed) ==
    LET evs == <<Changes(t, prev, new)>> \o ra.evs
                   \o <<TerminalEvent(t, new, ra.r)>> \o ra.late
    IN  IF w # NoErr
        THEN Outcome(Err(NotifyError(Display(w))), evs, ra.children, TRUE, new,
                     "accepted", FALSE, TRUE)
        ELSE IF ra.r = <<"Ok", None>>
        THEN Outcome(Cleanup(new, removed), evs, ra.children, TRUE, new,
                     "accepted", removed, FALSE)
        ELSE IF ra.r[1] = "Ok"
        THEN Outcome(Err(ActionFailed(t, ra.r[2][2])), evs, ra.children, TRUE,
                     new, "accepted", TRUE, FALSE)
        ELSE Outcome(ra.r, evs, ra.children, TRUE, new, "accepted", FALSE,
                     ra.r[2] \in AllWatcherErrors)

\* perform from the match on run_actions' result ra on, when the sink
\* returns w for the terminal event and the work directory can be removed
\* (removed) or not
Matched(t, prev, new, ra, w, removed) ==
    LET evs == <<Changes(t, prev, new)>> \o ra.evs
                   \o <<TerminalEvent(t, new, ra.r)>> \o ra.late
    IN  IF w # NoErr
        THEN Outcome(Err(NotifyError(Display(w))), evs, ra.children, TRUE, new,
                     "accepted", FALSE, TRUE)
        ELSE IF ra.r = <<"Ok", None>>
        THEN Outcome(Cleanup(new, removed), evs, ra.children, TRUE, new,
                     "accepted", removed, FALSE)
        ELSE IF ra.r[1] = "Ok"
        THEN Outcome(Err(ActionFailed(t, ra.r[2][2])), evs, ra.children, TRUE,
                     new, "accepted", FALSE, FALSE)
        ELSE Outcome(ra.r, evs, ra.children, TRUE, new, "accepted", FALSE,
                     ra.r[2] \in AllWatcherErrors)

\* the part of perform after ensure_worktree returned new # prev, when
\* run_actions goes one of the ways ras
ChangedWith(t, ras, prev, new) ==
    {Outcome(Err(NotifyError(Display(c.err))), <<c.ev>>, <<>>, TRUE, new,
             "rejected", FALSE, TRUE) :
        c \in {d \in sink(Changes(t, prev, new)) : d.err # NoErr}}
    \cup {Matched(t, prev, new, ra, w, removed) :
            ra \in ras, w \in {NoErr} \cup AllWatcherErrors,
            removed \in BOOLEAN}

\* the part of perform after ensure_worktree returned new # prev
Changed(t, n, prev, new) == ChangedWith(t, run_actions(t, n), prev, new)

\* the mutant of perform's comparison: the commands run on every fetch
Unchanged_never(prev, new) == FALSE

\* current_sha != new_sha is false
Unchanged(prev, new) == prev = new

\* Every way one call of GitWorkload::perform(workdir, prev) can go for task
\* t while the upstream branch points at tip, when run_actions, if it is
\* called, goes one of the ways ras.
performWith(t, ras, prev, tip) ==
    \* self.url_provider.auth_url()? fails
    {Early(Err(e)) : e \in GitHubErrors}
    \* ensure_worktree(...)? fails
    \cup {Early(Err(e)) : e \in GitErrors}
    \* an unwrap() inside the Git gateway panics
    \cup {Early(Panicked)}
    \cup (IF Unchanged(prev, tip)
          THEN {Outcome(Cleanup(tip, removed), <<>>, <<>>, TRUE, tip, "none",
                        removed, FALSE) : removed \in BOOLEAN}
          ELSE ChangedWith(t, ras, prev, tip))

\* Every way one call of GitWorkload::perform(workdir, prev) can go for task
\* t configured with n commands, while the upstream branch points at tip.
perform(t, n, prev, tip) == performWith(t, run_actions(t, n), prev, tip)

(* ------------------------- what a run leaves --------------------------- *)

\* the events of the workload itself, as tests/workload.rs filters them
non_action_events(evs) ==
    SelectSeq(evs, LAMBDA e : e[1] \notin {"ActionOutput", "ActionExit"})

\* some command of the run exited non-zero or was killed on timeout
ChildFailed(o) ==
    \E i \in 1..Len(o.children) :
        \/ o.children[i].how = "exit" /\ o.children[i].code # 0
        \/ o.children[i].how = "timeout"

\* the name of the command whose child failed
FailedChild(o) ==
    LET i == CHOOSE i \in 1..Len(o.children) :
                \/ o.children[i].how = "exit" /\ o.children[i].code # 0
                \/ o.children[i].how = "timeout"
    IN  o.children[i].name

\* some command of the run could not be spawned, polled, killed or read
ChildErrored(o) ==
    \E i \in 1..Len(o.children) : o.children[i].r = Err(ActionError)

\* the terminal event of a run's events, or None
Terminal(evs) ==
    IF \E i \in 1..Len(evs) : evs[i][1] \in TerminalKinds
    THEN Some(evs[CHOOSE i \in 1..Len(evs) : evs[i][1] \in TerminalKinds])
    ELSE None

\* What the supervisor's side sees of a run: the worker's Result, and for
\* the record what happened in the run: its terminal event, the command
\* whose child failed, whether a command errored, whether a watcher did.
Summary(o) ==
    [r |-> o.r, term |-> Terminal(o.evs),
     failed |-> IF ChildFailed(o) THEN Some(FailedChild(o)) ELSE None,
     errored |-> ChildErrored(o), werr |-> o.werr]

\* a way run_actions can go, without the events of the commands: the
\* supervisor's side sees a run's Result and the record kept in Summary,
\* neither of which looks at them
Brief(ra) == [ra EXCEPT !.evs = <<>>, !.late = <<>>]

\* the runs of task t from every commit, whatever commit the upstream branch
\* points at when the run fetches it, when run_actions goes one of the ways
\* ras: <<task, prev, Summary>>
RunsWith(t, ras) ==
    UNION {{<<t, k[1], Summary(o)>> : o \in performWith(t, ras, k[1], k[2])} :
             k \in Shas \X Commits}

\* every run of every task from every commit
RunTable ==
    UNION {RunsWith(t, {Brief(ra) : ra \in run_actions(t, NumActions(t))}) :
             t \in Tasks}

\* the runs of task t from prev
Runs ==
    [t \in Tasks, prev \in Shas |->
        {x[3] : x \in {y \in RunTable : y[1] = t /\ y[2] = prev}}]

(* ----------------------------- variables ------------------------------ *)

VARIABLES
    now,        \* the wall clock, SystemTime::now()
    once_only,  \* run_tasks' once_only flag
    sup,        \* where run_tasks is: "tick", "sleep", "returned", "failed", "panicked"
    state,      \* state[t]: ScheduledTask.state = [next_run, current_sha]
    worker,     \* worker[t]: ScheduledTask.worker, the JoinHandle and its thread
    live,       \* live[t]: worker threads spawned for t and not joined yet
    store,      \* FileStore.state: task id -> State, or NoState
    file,       \* the state file as last written
    tick,       \* the call of progress_one_task the last step made, or NoTick
    run,        \* SpecRun: the call of perform under study
    main,       \* SpecAction: the workload thread, in perform and run_action
    child,      \* SpecAction: the child process of the command
    todo,       \* SpecAction: todo[s]: chunks the child writes on stream s, unread
    rd,         \* SpecAction: rd[s]: the reader thread of stream s
    lock,       \* SpecAction: the thread that holds the sink's Mutex, or "free"
    cur,        \* SpecAction: the event in delivery and the watcher it is at
    expired,    \* SpecAction: Instant::now() > deadline
    log,        \* SpecAction: the calls of watchers made so far, in order
    wd,         \* SpecWatchdog: the Watchdog under study and its runner
    git,        \* SpecFetch: the upstream branch, the mirror and the workdir;
                \* SpecGitCall: one call of clone_repo or fetch_repo
    pipe        \* SpecEmit: one stream of a command and its reader thread

supVars == <<now, once_only, sup, state, worker, live, store, file, tick>>
actVars == <<main, child, todo, rd, lock, cur, expired, log>>
vars == <<now, once_only, sup, state, worker, live, store, file, tick, run,
          main, child, todo, rd, lock, cur, expired, log, wd, git, pipe>>

NoState == [next_run |-> -1, current_sha |-> NullSha]
NoWorker == [st |-> "none"]
NoRun == [phase |-> "none"]
NoTick == [kind |-> "none", task |-> 0]
NoDelivery == [idx |-> 0]

\* no command is under study
NoAction ==
    /\ main = [pc |-> "none"]
    /\ child = [st |-> "none"]
    /\ todo = [s \in Streams |-> 0]
    /\ rd = [s \in Streams |-> [pc |-> "idle", res |-> NoErr]]
    /\ lock = "free"
    /\ cur = NoDelivery
    /\ expired = FALSE
    /\ log = <<>>

\* no Watchdog is under study
NoWatchdog == [pc |-> "none"]

\* no repository is under study
NoGit == [remote |-> 0]

\* no stream is under study
NoPipe == [pc |-> "none"]

Running == <<"Ok", "Running">>
Idle == <<"Ok", "Idle">>

(* --------------------------- scheduled task --------------------------- *)

\* the mutant of is_eligible: the worker handle is not looked at
is_eligible_no_handle(t) ==
    state[t].next_run < now

is_eligible(t) ==
    worker[t].st = "none" /\ state[t].next_run < now

is_running(t) ==
    worker[t].st # "none" /\ worker[t].st # "finished"

\* the mutant of is_finished: the thread's state is not looked at
is_finished_any_handle(t) ==
    worker[t].st # "none"

is_finished(t) ==
    worker[t].st # "none" /\ worker[t].st = "finished"

\* the mutant of schedule_next: next_run is left alone
schedule_next_skipped(t, st) == st

\* the state after schedule_next()
schedule_next(t, st) ==
    [st EXCEPT !.next_run = now + Interval(t)]

\* the handle start() stores: a thread running perform(workdir, current_sha)
start(t) ==
    [st |-> "running", prev |-> state[t].current_sha]

\* the mutant of finalize: a failed run's result resets the commit id
finalize_reset(st, res) ==
    IF res[1] = "Ok" THEN [st EXCEPT !.current_sha = res[2]]
    ELSE [st EXCEPT !.current_sha = NullSha]

\* the state after finalize() joined a worker that returned res
finalize(st, res) ==
    IF res[1] = "Ok" THEN [st EXCEPT !.current_sha = res[2]] ELSE st

\* tasks.iter_mut().find(|t| ...): the first by position of the tasks in S
\* the mutant of find: the last task that satisfies the predicate
Find_last(S) ==
    CHOOSE t \in S : \A u \in S : t >= u

Find(S) ==
    CHOOSE t \in S : \A u \in S : t <= u

(* ------------------------------ the store ------------------------------ *)

\* the mutant of insert: every entry takes the task's State
insert_everywhere(t, st) == [id \in DOMAIN store |-> st]

\* the mapping after self.state.insert(id, task.state())
insert(t, st) == [store EXCEPT ![t] = st]

\* the state file after File::create truncated it and nothing was written
Truncated == [id \in DOMAIN store |-> NoState]

\* the mutant of persist: the mapping is written as it was, without the
\* task's new State
persist_without_insert(t, st) ==
    {[err |-> NoErr, store |-> store, file |-> store],
     [err |-> SavingState, store |-> store, file |-> file],
     [err |-> SerdeState, store |-> store, file |-> Truncated]}

\* FileStore::persist(id, task) for task t in state st: the entry is
\* overwritten, then the file is created and the whole mapping written;
\* File::create can fail (the file is as it was) and so can the write (the
\* file is left truncated).
persist(t, st) ==
    {[err |-> NoErr, store |-> insert(t, st), file |-> insert(t, st)],
     [err |-> SavingState, store |-> insert(t, st), file |-> file],
     [err |-> SerdeState, store |-> insert(t, st), file |-> Truncated]}

(* ----------------------------- supervisor ------------------------------ *)

\* the mutant of run_tasks: an error of a tick does not end the loop
AfterTick_never_stops(ret) ==
    IF ret = Idle /\ once_only THEN "returned" ELSE "sleep"

\* the mutant of run_tasks: in once-only mode any tick without an error ends
\* the loop
AfterTick_once_returns(ret) ==
    IF ret[1] = "Err" THEN "failed"
    ELSE IF once_only THEN "returned"
    ELSE "sleep"

\* run_tasks after a tick returned ret
AfterTick(ret) ==
    IF ret[1] = "Err" THEN "failed"
    ELSE IF ret = Idle /\ once_only THEN "returned"
    ELSE "sleep"

\* The record of one call of progress_one_task: the branch taken (kind), the
\* task it acted on (0 for none), the calls made in order, what it returned,
\* and the workers, the states and the store as the call found them.
Tick(kind, t, calls, ret) ==
    [kind |-> kind, task |-> t, calls |-> calls, ret |-> ret,
     worker0 |-> worker, state0 |-> state, store0 |-> store, file0 |-> file]

\* first branch: some task is eligible and start() cannot create its workdir
TickStartFails ==
    /\ sup = "tick"
    /\ \E t \in Tasks : is_eligible(t)
    /\ LET t == Find({u \in Tasks : is_eligible(u)}) IN
        /\ tick' = Tick("start", t, <<"start">>, Err(WorkDir))
        /\ sup' = AfterTick(Err(WorkDir))
    /\ UNCHANGED <<now, once_only, state, worker, live, store, file, run, actVars, wd, git, pipe>>

\* first branch: start(), schedule_next(), persist(task)
TickStart ==
    /\ sup = "tick"
    /\ \E t \in Tasks : is_eligible(t)
    /\ LET t == Find({u \in Tasks : is_eligible(u)})
           st == schedule_next(t, state[t])
       IN
        /\ worker' = [worker EXCEPT ![t] = start(t)]
        /\ live' = [live EXCEPT ![t] = @ + 1]
        /\ state' = [state EXCEPT ![t] = st]
        /\ \E p \in persist(t, st) :
            LET ret == IF p.err = NoErr THEN Running ELSE Err(p.err) IN
            /\ store' = p.store
            /\ file' = p.file
            /\ tick' = Tick("start", t, <<"start", "schedule_next", "persist">>, ret)
            /\ sup' = AfterTick(ret)
    /\ UNCHANGED <<now, once_only, run, actVars, wd, git, pipe>>

\* second branch: finalize() of the first finished task; join() yields what
\* the worker's call of perform returned, s.r, or its panic
TickFinalize ==
    /\ sup = "tick"
    /\ ~ \E t \in Tasks : is_eligible(t)
    /\ \E t \in Tasks : is_finished(t)
    /\ LET t == Find({u \in Tasks : is_finished(u)}) IN
       \E s \in Runs[t, worker[t].prev] :
        LET res == s.r
            info == [res |-> res, sum |-> s]
        IN
        /\ worker' = [worker EXCEPT ![t] = NoWorker]
        /\ live' = [live EXCEPT ![t] = @ - 1]
        /\ IF res = Panicked
           THEN \* .join().unwrap() panics in the supervisor's thread
                /\ sup' = "panicked"
                /\ tick' = Tick("finalize", t, <<"finalize">>, Panicked) @@ info
                /\ UNCHANGED <<state, store, file>>
           ELSE IF res[1] = "Ok"
           THEN /\ state' = [state EXCEPT ![t] = finalize(state[t], res)]
                /\ \E p \in persist(t, finalize(state[t], res)) :
                    LET ret == IF p.err = NoErr THEN Running ELSE Err(p.err) IN
                    /\ store' = p.store
                    /\ file' = p.file
                    /\ tick' = Tick("finalize", t, <<"finalize", "persist">>, ret) @@ info
                    /\ sup' = AfterTick(ret)
           ELSE LET ret == IF is_fatal(res[2]) THEN res ELSE Running IN
                /\ state' = [state EXCEPT ![t] = finalize(state[t], res)]
                /\ tick' = Tick("finalize", t, <<"finalize">>, ret) @@ info
                /\ sup' = AfterTick(ret)
                /\ UNCHANGED <<store, file>>
    /\ UNCHANGED <<now, once_only, run, actVars, wd, git, pipe>>

\* third branch: nothing to start or finalize, some task is running
TickRunning ==
    /\ sup = "tick"
    /\ ~ \E t \in Tasks : is_eligible(t)
    /\ ~ \E t \in Tasks : is_finished(t)
    /\ \E t \in Tasks : is_running(t)
    /\ tick' = Tick("running", 0, <<>>, Running)
    /\ sup' = AfterTick(Running)
    /\ UNCHANGED <<now, once_only, state, worker, live, store, file, run, actVars, wd, git, pipe>>

\* otherwise: Idle
TickIdle ==
    /\ sup = "tick"
    /\ ~ \E t \in Tasks : is_eligible(t)
    /\ ~ \E t \in Tasks : is_finished(t)
    /\ ~ \E t \in Tasks : is_running(t)
    /\ tick' = Tick("idle", 0, <<>>, Idle)
    /\ sup' = AfterTick(Idle)
    /\ UNCHANGED <<now, once_only, state, worker, live, store, file, run, actVars, wd, git, pipe>>

\* the two scans of the workers are not one look: is_finished() found every
\* thread still running, each of them ended before `any` came to its
\* is_running(), and the tick falls through to Idle with the handles held
TickIdleRaced ==
    /\ sup = "tick"
    /\ ~ \E t \in Tasks : is_eligible(t)
    /\ ~ \E t \in Tasks : is_finished(t)
    /\ \E t \in Tasks : is_running(t)
    /\ worker' = [t \in Tasks |->
                    IF is_running(t)
                    THEN [worker[t] EXCEPT !.st = "finished"]
                    ELSE worker[t]]
    /\ tick' = Tick("idle", 0, <<>>, Idle)
    /\ sup' = AfterTick(Idle)
    /\ UNCHANGED <<now, once_only, state, live, store, file, run, actVars, wd, git, pipe>>

progress_one_task ==
    \/ TickStartFails
    \/ TickStart
    \/ TickFinalize
    \/ TickRunning
    \/ TickIdle
    \/ TickIdleRaced

\* sleep(poll_interval), then the next tick; the clock is read by the ticks
\* alone, and it advances while the supervisor sleeps
Sleep ==
    /\ sup = "sleep"
    /\ sup' = "tick"
    /\ \E d \in 0..1 : now' = IF now + d > MaxTime THEN now ELSE now + d
    /\ tick' = NoTick
    /\ UNCHANGED <<once_only, state, worker, live, store, file, run, actVars, wd, git, pipe>>

(* ---------------------------- environment ------------------------------ *)

\* the process is alive: run_tasks has not returned
Alive == sup \in {"tick", "sleep"}

\* the worker thread of task t runs perform to its end; what it returned
\* stays in the JoinHandle until finalize() joins it
WorkerFinish(t) ==
    /\ Alive
    /\ worker[t].st = "running"
    /\ worker' = [worker EXCEPT ![t] = [@ EXCEPT !.st = "finished"]]
    /\ tick' = NoTick
    /\ UNCHANGED <<now, once_only, sup, state, live, store, file, run, actVars, wd, git, pipe>>

(* ------------------------------- Spec ---------------------------------- *)

\* State::default(): never observed, due at construction time
Default == [next_run |-> 0, current_sha |-> NullSha]
\* a State a former process left in the state file
Loaded == {[next_run |-> 0, current_sha |-> 1]}

\* the tasks were constructed at time 0; run_tasks begins then or later
Init ==
    /\ now \in 0..1
    /\ once_only \in BOOLEAN
    /\ sup = "tick"
    /\ store \in [Tasks -> {NoState} \cup Loaded]
    /\ file = store
    /\ state = [t \in Tasks |-> IF store[t] = NoState THEN Default ELSE store[t]]
    /\ worker = [t \in Tasks |-> NoWorker]
    /\ live = [t \in Tasks |-> 0]
    /\ tick = NoTick
    /\ run = NoRun
    /\ NoAction
    /\ wd = NoWatchdog
    /\ git = NoGit
    /\ pipe = NoPipe

Next ==
    \/ progress_one_task
    \/ Sleep
    \/ \E t \in Tasks : WorkerFinish(t)

Spec == Init /\ [][Next]_vars

(* ------------------------------ SpecLive ------------------------------- *)

\* SpecLive is Spec with a clock that never stops: instead of `now` growing
\* while the supervisor sleeps, every next_run moves one unit closer.  The
\* ticks compare next_run with now and nothing else reads either, so a
\* next_run below now - 1 is kept at now - 1.  The supervisor is scheduled,
\* its sleep ends, and a worker thread runs to its end.
Earlier(st) ==
    IF st = NoState \/ st.next_run < now
    THEN st
    ELSE [st EXCEPT !.next_run = @ - 1]

SleepLive ==
    /\ sup = "sleep"
    /\ sup' = "tick"
    /\ tick' = NoTick
    /\ \/ UNCHANGED <<state, store, file>>
       \/ /\ state' = [t \in Tasks |-> Earlier(state[t])]
          /\ store' = [t \in Tasks |-> Earlier(store[t])]
          /\ file' = [t \in Tasks |-> Earlier(file[t])]
    /\ UNCHANGED <<now, once_only, worker, live, run, actVars, wd, git, pipe>>

InitLive == Init /\ now = 1

NextLive ==
    \/ progress_one_task
    \/ SleepLive
    \/ \E t \in Tasks : WorkerFinish(t)

SpecLive ==
    /\ InitLive
    /\ [][NextLive]_vars
    /\ WF_vars(progress_one_task)
    /\ WF_vars(SleepLive)
    /\ \A t \in Tasks : WF_vars(WorkerFinish(t))

(* ------------------------------ SpecRun -------------------------------- *)

InitRun ==
    /\ \E t \in Tasks, n \in 0..MaxActions, prev \in Shas, new \in Commits :
        run = [phase |-> "called", task |-> t, n |-> n, prev |-> prev, tip |-> new]
    /\ now = 0
    /\ once_only = FALSE
    /\ sup = "tick"
    /\ store = [t \in Tasks |-> NoState]
    /\ file = store
    /\ state = [t \in Tasks |-> Default]
    /\ worker = [t \in Tasks |-> NoWorker]
    /\ live = [t \in Tasks |-> 0]
    /\ tick = NoTick
    /\ NoAction
    /\ wd = NoWatchdog
    /\ git = NoGit
    /\ pipe = NoPipe

Perform ==
    /\ run.phase = "called"
    /\ \E o \in perform(run.task, run.n, run.prev, run.tip) :
        run' = [phase |-> "returned", task |-> run.task, n |-> run.n,
                prev |-> run.prev, tip |-> run.tip, out |-> o]
    /\ UNCHANGED <<supVars, actVars, wd, git, pipe>>

NextRun == Perform

SpecRun == InitRun /\ [][NextRun]_vars

(* ----------------------------- SpecAction ------------------------------ *)
(* One run of a workload with one command, step by step: the workload      *)
(* thread in perform and run_action, the child process, the two reader     *)
(* threads of emit_data, and the sink with the Mutex that all three        *)
(* threads take to deliver an event to the watchers.                        *)

\* the commit the run under study started from
ActionPrev == NullSha

\* the watchers of a task in registration order (into_task): the one that
\* posts commit statuses, then the one that forwards to the logging channel
Watchers == <<"github", "channel">>

\* what one call of watcher w returns for event e
watcher_call(w, e) ==
    IF w = "github"
    THEN {NoErr} \cup (IF e[1] \in StatusKinds THEN GitHubErrors ELSE {})
    ELSE {NoErr, NotifyError(Display(SendError))}

\* the mutant of sink.lock(): the Mutex is handed out while it is held
can_lock_always == TRUE

\* sink.lock() returns: no thread holds the Mutex
can_lock == lock = "free"

\* the mutant of the `?` in the sink's loop: the traversal goes on after a
\* watcher's error
short_circuit_never(r) == FALSE

\* watcher(event.clone())? leaves the sink's loop
short_circuit(r) == r # NoErr

\* sink.lock().unwrap()(e) by thread th, up to the first watcher
Begin(th, e) ==
    /\ can_lock
    /\ lock' = th
    /\ cur' = [idx |-> 1, ev |-> e, by |-> th]

\* the traversal of the watcher list ends with the call that returned r
Ended(r) == short_circuit(r) \/ cur.idx = Len(Watchers)

\* the mutant of the sink's call: the Mutex guard outlives the call
Called_keeps_guard(r) ==
    /\ log' = Append(log, [w |-> cur.idx, ev |-> cur.ev, by |-> cur.by, r |-> r])
    /\ lock' = lock
    /\ cur' = IF Ended(r) THEN NoDelivery ELSE [cur EXCEPT !.idx = @ + 1]

\* one call of the watcher the traversal is at, which returned r; the Mutex
\* guard is dropped when the closure returns
Called(r) ==
    /\ log' = Append(log, [w |-> cur.idx, ev |-> cur.ev, by |-> cur.by, r |-> r])
    /\ IF Ended(r)
       THEN lock' = "free" /\ cur' = NoDelivery
       ELSE lock' = lock /\ cur' = [cur EXCEPT !.idx = @ + 1]

\* the name run_actions gives the command
Name == ActionName(main.task, 1)

\* what run_actions returns for the one command, from run_action's result
AfterAction(ret) ==
    IF ret = ActionSuccess THEN <<"Ok", None>>
    ELSE IF ret = ActionFailure THEN <<"Ok", Some(Name)>>
    ELSE ret

\* the event the workload thread passes to the sink next
MainEvent ==
    IF main.what = "changes" THEN Changes(main.task, ActionPrev, main.new)
    ELSE IF main.what = "exit"
    THEN IF main.path = "exit" THEN ActionExit(Name, child.code) ELSE Timeout(Name)
    ELSE TerminalEvent(main.task, main.new, AfterAction(main.ret))

\* run_action returns ret at step how; perform goes on to the terminal event
Returns(ret, how) ==
    [main EXCEPT !.pc = "emit", !.what = "terminal", !.ret = ret, !.how = how]

\* a reader thread's read of its pipe: an error, a chunk, or end of file
\* once the child is gone and the pipe is empty
ReaderRead(s) ==
    /\ rd[s].pc = "read"
    /\ \/ /\ rd' = [rd EXCEPT ![s] = [pc |-> "done", res |-> ActionError]]
          /\ UNCHANGED todo
       \/ /\ todo[s] > 0
          /\ todo' = [todo EXCEPT ![s] = @ - 1]
          /\ rd' = [rd EXCEPT ![s].pc = "lock"]
       \/ /\ todo[s] = 0
          /\ child.st # "running"
          /\ rd' = [rd EXCEPT ![s] = [pc |-> "done", res |-> NoErr]]
          /\ UNCHANGED todo
    /\ UNCHANGED <<supVars, run, wd, git, pipe, main, child, lock, cur, expired, log>>

\* a reader thread takes the sink's Mutex for the chunk it read
ReaderLock(s) ==
    /\ rd[s].pc = "lock"
    /\ Begin(s, ActionOutput(Name, s))
    /\ rd' = [rd EXCEPT ![s].pc = "deliver"]
    /\ UNCHANGED <<supVars, run, wd, git, pipe, main, child, todo, expired, log>>

\* the sink, called by a reader thread, calls the next watcher
ReaderDeliver(s) ==
    /\ rd[s].pc = "deliver"
    /\ \E r \in watcher_call(Watchers[cur.idx], cur.ev) :
        /\ Called(r)
        /\ rd' = IF ~ Ended(r) THEN rd
                 ELSE IF r # NoErr
                 THEN [rd EXCEPT ![s] = [pc |-> "done", res |-> r]]
                 ELSE [rd EXCEPT ![s].pc = "read"]
    /\ UNCHANGED <<supVars, run, wd, git, pipe, main, child, todo, expired>>

\* the workload thread takes the sink's Mutex for its next event
MainLock ==
    /\ main.pc = "emit"
    /\ Begin("main", MainEvent)
    /\ main' = [main EXCEPT !.pc = "deliver"]
    /\ UNCHANGED <<supVars, run, wd, git, pipe, child, todo, rd, expired, log>>

\* the sink, called by the workload thread, calls the next watcher; when the
\* traversal ends perform or run_action goes on with what the sink returned
MainDeliver ==
    /\ main.pc = "deliver"
    /\ \E r \in watcher_call(Watchers[cur.idx], cur.ev), removed \in BOOLEAN :
        /\ Called(r)
        /\ main' =
            IF ~ Ended(r) THEN main
            ELSE IF main.what = "changes"
            THEN IF r # NoErr
                 THEN [main EXCEPT !.pc = "returned",
                                   !.out = Err(NotifyError(Display(r)))]
                 ELSE [main EXCEPT !.pc = "spawn"]
            ELSE IF main.what = "exit"
            THEN Returns(IF r # NoErr THEN Err(r)
                         ELSE IF main.path = "exit" /\ child.code = 0
                         THEN ActionSuccess ELSE ActionFailure,
                         main.path)
            ELSE [main EXCEPT
                    !.pc = "returned",
                    !.out = Matched(main.task, ActionPrev, main.new,
                                    [r |-> AfterAction(main.ret), evs |-> <<>>,
                                     late |-> <<>>, children |-> <<>>],
                                    r, removed).r]
    /\ UNCHANGED <<supVars, run, wd, git, pipe, child, todo, rd, expired>>

\* command.spawn() fails
SpawnFails ==
    /\ main.pc = "spawn"
    /\ main' = Returns(Err(ActionError), "spawn")
    /\ UNCHANGED <<supVars, run, wd, git, pipe, child, todo, rd, lock, cur, expired, log>>

\* command.spawn(), then emit_data twice: the child and both readers run
Spawn ==
    /\ main.pc = "spawn"
    /\ main' = [main EXCEPT !.pc = "poll"]
    /\ child' = [child EXCEPT !.st = "running"]
    /\ rd' = [s \in Streams |-> [pc |-> "read", res |-> NoErr]]
    /\ UNCHANGED <<supVars, run, wd, git, pipe, todo, lock, cur, expired, log>>

\* child.try_wait() fails
PollFails ==
    /\ main.pc = "poll"
    /\ main' = Returns(Err(ActionError), "wait")
    /\ UNCHANGED <<supVars, run, wd, git, pipe, child, todo, rd, lock, cur, expired, log>>

\* child.try_wait() returns Some(exit): the child is reaped
PollExited ==
    /\ main.pc = "poll"
    /\ child.st = "exited"
    /\ child' = [child EXCEPT !.st = "reaped"]
    /\ main' = [main EXCEPT !.pc = "join_out", !.path = "exit"]
    /\ UNCHANGED <<supVars, run, wd, git, pipe, todo, rd, lock, cur, expired, log>>

\* try_wait() returns None, the deadline has passed, child.kill() fails
KillFails ==
    /\ main.pc = "poll"
    /\ child.st = "running"
    /\ expired
    /\ main' = Returns(Err(ActionError), "kill")
    /\ UNCHANGED <<supVars, run, wd, git, pipe, child, todo, rd, lock, cur, expired, log>>

\* the mutant of child.kill(): the child is left running
Kill_not_killed ==
    /\ main.pc = "poll"
    /\ child.st = "running"
    /\ expired
    /\ main' = [main EXCEPT !.pc = "join_out", !.path = "timeout"]
    /\ UNCHANGED <<supVars, run, wd, git, pipe, child, todo, rd, lock, cur, expired, log>>

\* the mutant of the poll: the deadline is looked at before try_wait()
Kill_before_exit_check ==
    /\ main.pc = "poll"
    /\ child.st \in {"running", "exited"}
    /\ expired
    /\ child' = [child EXCEPT !.st = "killed"]
    /\ main' = [main EXCEPT !.pc = "join_out", !.path = "timeout"]
    /\ UNCHANGED <<supVars, run, wd, git, pipe, todo, rd, lock, cur, expired, log>>

\* try_wait() returns None, the deadline has passed, child.kill()
Kill ==
    /\ main.pc = "poll"
    /\ child.st = "running"
    /\ expired
    /\ child' = [child EXCEPT !.st = "killed"]
    /\ main' = [main EXCEPT !.pc = "join_out", !.path = "timeout"]
    /\ UNCHANGED <<supVars, run, wd, git, pipe, todo, rd, lock, cur, expired, log>>

\* out_t.join().unwrap()?
JoinOut ==
    /\ main.pc = "join_out"
    /\ rd["StdOut"].pc = "done"
    /\ main' = IF rd["StdOut"].res # NoErr
               THEN Returns(Err(rd["StdOut"].res), main.path)
               ELSE [main EXCEPT !.pc = "join_err", !.joined = 1]
    /\ UNCHANGED <<supVars, run, wd, git, pipe, child, todo, rd, lock, cur, expired, log>>

\* the mutant of err_t.join(): the stderr reader is not waited for
JoinErr_no_wait ==
    /\ main.pc = "join_err"
    /\ main' = [main EXCEPT !.pc = "emit", !.what = "exit", !.joined = 2]
    /\ UNCHANGED <<supVars, run, wd, git, pipe, child, todo, rd, lock, cur, expired, log>>

\* err_t.join().unwrap()?
JoinErr ==
    /\ main.pc = "join_err"
    /\ rd["StdErr"].pc = "done"
    /\ main' = IF rd["StdErr"].res # NoErr
               THEN Returns(Err(rd["StdErr"].res), main.path)
               ELSE [main EXCEPT !.pc = "emit", !.what = "exit", !.joined = 2]
    /\ UNCHANGED <<supVars, run, wd, git, pipe, child, todo, rd, lock, cur, expired, log>>

\* the child writes a chunk on one of its streams
ChildWrite(s) ==
    /\ child.st = "running"
    /\ child.wrote < MaxChunks
    /\ child' = [child EXCEPT !.wrote = @ + 1]
    /\ todo' = [todo EXCEPT ![s] = @ + 1]
    /\ UNCHANGED <<supVars, run, wd, git, pipe, main, rd, lock, cur, expired, log>>

\* the child exits by itself
ChildExit ==
    /\ child.st = "running"
    /\ \E code \in {0, 1} : child' = [child EXCEPT !.st = "exited", !.code = code]
    /\ UNCHANGED <<supVars, run, wd, git, pipe, main, todo, rd, lock, cur, expired, log>>

\* the wall clock passes the run's deadline; for the record, whether it
\* found run_action polling a child that had not exited (overran)
Expire ==
    /\ main.pc \notin {"none", "returned"}
    /\ ~ expired
    /\ expired' = TRUE
    /\ child' = [child EXCEPT
                    !.overran = main.pc = "poll" /\ child.st = "running"]
    /\ UNCHANGED <<supVars, run, wd, git, pipe, main, todo, rd, lock, cur, log>>

InitAction ==
    /\ \E t \in Tasks, new \in Commits :
        main = [pc |-> "emit", what |-> "changes", task |-> t, new |-> new,
                path |-> "none", how |-> "none", joined |-> 0,
                ret |-> None, out |-> None]
    /\ child = [st |-> "none", code |-> -1, wrote |-> 0, overran |-> FALSE]
    /\ todo = [s \in Streams |-> 0]
    /\ rd = [s \in Streams |-> [pc |-> "idle", res |-> NoErr]]
    /\ lock = "free"
    /\ cur = NoDelivery
    /\ expired = FALSE
    /\ log = <<>>
    /\ wd = NoWatchdog
    /\ git = NoGit
    /\ pipe = NoPipe
    /\ run = NoRun
    /\ now = 0
    /\ once_only = FALSE
    /\ sup = "tick"
    /\ store = [t \in Tasks |-> NoState]
    /\ file = store
    /\ state = [t \in Tasks |-> Default]
    /\ worker = [t \in Tasks |-> NoWorker]
    /\ live = [t \in Tasks |-> 0]
    /\ tick = NoTick

NextAction ==
    \/ \E s \in Streams : ReaderRead(s)
    \/ \E s \in Streams : ReaderLock(s)
    \/ \E s \in Streams : ReaderDeliver(s)
    \/ MainLock
    \/ MainDeliver
    \/ SpawnFails
    \/ Spawn
    \/ PollFails
    \/ PollExited
    \/ KillFails
    \/ Kill
    \/ JoinOut
    \/ JoinErr
    \/ \E s \in Streams : ChildWrite(s)
    \/ ChildExit
    \/ Expire

SpecAction == InitAction /\ [][NextAction]_vars

\* the steps of the reader thread of stream s
Reader(s) == ReaderRead(s) \/ ReaderLock(s) \/ ReaderDeliver(s)

\* the steps of the workload thread in which it waits for another thread or
\* holds the Mutex
Runner == MainLock \/ MainDeliver \/ JoinOut \/ JoinErr

\* the run of the first task's command at the first commit; no step of the
\* threads looks at the task or the commit beyond naming them in events
InitActionFair == InitAction /\ main.task = 1 /\ main.new = 1

\* SpecAction with threads that the operating system keeps scheduling: a
\* thread whose next step stays possible takes it
SpecActionFair ==
    /\ InitActionFair /\ [][NextAction]_vars
    /\ \A s \in Streams : WF_vars(Reader(s))
    /\ WF_vars(Runner)

(* ------------------------------ SpecStart ------------------------------ *)
(* The start of the process: the state file is loaded, the store is pruned *)
(* to the configured tasks, and each task takes over the State saved for   *)
(* it. sup is "load", "retain", "restore", then "tick" as run_tasks begins.*)

\* the names a state file can hold: the configured tasks, and 0, a task that
\* is no longer configured
Names == 0..NumTasks

\* the States a former process can have left in the state file
Saved ==
    {[next_run |-> n, current_sha |-> c] : n \in {0, MaxTime}, c \in Shas}

\* FileStore::get(id): Some(State) or None
get(id) == IF store[id] = NoState THEN None ELSE Some(store[id])

\* the mutant of retain: every entry is kept
retain_all(task_ids) == store

\* the mapping after retain(task_ids)
retain(task_ids) ==
    [id \in DOMAIN store |-> IF id \in task_ids THEN store[id] ELSE NoState]

\* the task's State after set_state(s)
set_state(st, s) == s

\* FileStore::from_file(path): the mapping read from the file, empty if
\* there is no file
FromFile ==
    /\ sup = "load"
    /\ store' = file
    /\ sup' = "retain"
    /\ UNCHANGED <<now, once_only, state, worker, live, file, tick, run, actVars, wd, git, pipe>>

\* from_file cannot stat, open or parse the file: main returns the error
FromFileFails ==
    /\ sup = "load"
    /\ sup' = "failed"
    /\ UNCHANGED <<now, once_only, state, worker, live, store, file, tick, run, actVars, wd, git, pipe>>

\* store.retain(task_ids) with the ids of the configured tasks
Retain ==
    /\ sup = "retain"
    /\ store' = retain(Tasks)
    /\ sup' = "restore"
    /\ UNCHANGED <<now, once_only, state, worker, live, file, tick, run, actVars, wd, git, pipe>>

\* for task in &mut tasks { if let Some(s) = store.get(&task.id()) { ... } }
Restore ==
    /\ sup = "restore"
    /\ state' = [t \in Tasks |->
                    IF get(t) # None THEN set_state(state[t], get(t)[2])
                    ELSE state[t]]
    /\ sup' = "tick"
    /\ UNCHANGED <<now, once_only, worker, live, store, file, tick, run, actVars, wd, git, pipe>>

\* the tasks persisted since the process started
Persisted == IF tick.kind = "persist" THEN tick.done ELSE {}

\* store.persist(task) for a task whose State is as startup left it
PersistTask(t) ==
    /\ sup = "tick"
    /\ \E p \in persist(t, state[t]) :
        /\ store' = p.store
        /\ file' = p.file
        /\ tick' = [done |-> Persisted \cup {t}]
                    @@ Tick("persist", t, <<"persist">>,
                            IF p.err = NoErr THEN Running ELSE Err(p.err))
    /\ UNCHANGED <<now, once_only, sup, state, worker, live, run, actVars, wd, git, pipe>>

InitStart ==
    /\ now \in 0..1
    /\ once_only = FALSE
    /\ sup = "load"
    /\ file \in [Names -> {NoState} \cup Saved]
    /\ store = [id \in Names |-> NoState]
    /\ state = [t \in Tasks |-> Default]
    /\ worker = [t \in Tasks |-> NoWorker]
    /\ live = [t \in Tasks |-> 0]
    /\ tick = NoTick
    /\ run = NoRun
    /\ NoAction
    /\ wd = NoWatchdog
    /\ git = NoGit
    /\ pipe = NoPipe

NextStart ==
    \/ FromFile
    \/ FromFileFails
    \/ Retain
    \/ Restore
    \/ \E t \in Tasks : PersistTask(t)

SpecStart == InitStart /\ [][NextStart]_vars

(* ------------------------------ watchdog ------------------------------- *)

\* SpecWatchdog follows one Watchdog and the thread that runs its runner()
\* closure.  The clock `now` counts poll intervals and is followed up to
\* MaxTime, which no deadline exceeds; `wake` is the number of intervals a
\* sleeping runner has still to sleep.  The loop condition reads the clock
\* and then loads the flag, two steps that another thread's cancel() can
\* fall between.
NotYet == 0 - 1

\* Watchdog::new(deadline): the flag starts false
Watchdog_new(deadline) ==
    [pc |-> "clock", deadline |-> deadline, cancellation |-> FALSE,
     wake |-> 0, cancelled |-> NotYet, returned |-> NotYet]

\* the loop condition that ignores the flag
RunnerLoad_ignores_flag ==
    /\ wd.pc = "load"
    /\ wd' = [wd EXCEPT !.pc = "sleep", !.wake = 1]
    /\ UNCHANGED <<supVars, run, actVars, git, pipe>>

\* `Instant::now() < self.deadline`, the left operand of the loop condition
RunnerClock ==
    /\ wd.pc = "clock"
    /\ wd' = [wd EXCEPT !.pc = IF now < wd.deadline THEN "load" ELSE "store"]
    /\ UNCHANGED <<supVars, run, actVars, git, pipe>>

\* `!self.cancellation.load(Relaxed)`, the right operand, and the call of
\* sleep(POLL_INTERVAL) when the condition holds
RunnerLoad ==
    /\ wd.pc = "load"
    /\ wd' = IF wd.cancellation
             THEN [wd EXCEPT !.pc = "store"]
             ELSE [wd EXCEPT !.pc = "sleep", !.wake = 1]
    /\ UNCHANGED <<supVars, run, actVars, git, pipe>>

\* sleep(POLL_INTERVAL) returns
RunnerWake ==
    /\ wd.pc = "sleep"
    /\ wd.wake = 0
    /\ wd' = [wd EXCEPT !.pc = "clock"]
    /\ UNCHANGED <<supVars, run, actVars, git, pipe>>

\* `self.cancellation.store(true, Relaxed)` after the loop; the closure
\* returns
RunnerStore ==
    /\ wd.pc = "store"
    /\ wd' = [wd EXCEPT !.pc = "done", !.cancellation = TRUE,
                        !.returned = now]
    /\ UNCHANGED <<supVars, run, actVars, git, pipe>>

runner == RunnerClock \/ RunnerLoad \/ RunnerWake \/ RunnerStore

\* Watchdog::cancel, called by another thread at any time; `cancelled`
\* remembers the time of the first call
cancel ==
    /\ wd # NoWatchdog
    /\ wd' = [wd EXCEPT !.cancellation = TRUE,
                        !.cancelled = IF @ = NotYet THEN now ELSE @]
    /\ UNCHANGED <<supVars, run, actVars, git, pipe>>

\* a poll interval passes
Pass ==
    /\ wd # NoWatchdog
    /\ now < MaxTime \/ (wd.pc = "sleep" /\ wd.wake > 0)
    /\ now' = IF now < MaxTime THEN now + 1 ELSE now
    /\ wd' = IF wd.pc = "sleep" /\ wd.wake > 0
             THEN [wd EXCEPT !.wake = @ - 1]
             ELSE wd
    /\ UNCHANGED <<once_only, sup, state, worker, live, store, file, tick,
                   run, actVars, git, pipe>>

InitWatchdog ==
    /\ now \in 0..1
    /\ once_only = FALSE
    /\ sup = "watchdog"
    /\ state = [t \in Tasks |-> Default]
    /\ worker = [t \in Tasks |-> NoWorker]
    /\ live = [t \in Tasks |-> 0]
    /\ store = [t \in Tasks |-> NoState]
    /\ file = [t \in Tasks |-> NoState]
    /\ tick = NoTick
    /\ run = NoRun
    /\ NoAction
    /\ \E deadline \in 0..MaxTime : wd = Watchdog_new(deadline)
    /\ git = NoGit
    /\ pipe = NoPipe

NextWatchdog ==
    \/ RunnerClock
    \/ RunnerLoad
    \/ RunnerWake
    \/ RunnerStore
    \/ cancel
    \/ Pass

\* the runner's thread is scheduled and time passes
SpecWatchdog ==
    InitWatchdog /\ [][NextWatchdog]_vars /\ WF_vars(runner) /\ WF_vars(Pass)

(* ---------------------- a call of the Git gateway ---------------------- *)

\* SpecGitCall follows one call of clone_repo or fetch_repo: the calling
\* thread, in `git`, and the Watchdog of the call with the helper thread that
\* runs its runner() inside the call's thread scope, in `wd`.  git.pc is
\* "scope" as the scope is entered, "op" while the Git operation runs,
\* "cancel" when it has returned, "join" while the scope waits for its
\* threads, then "returned" or "panicked".
GitCalls == {"clone_repo", "fetch_repo"}

\* s.spawn(watchdog.runner()): the helper begins with its loop condition
GitSpawn ==
    /\ git.pc = "scope"
    /\ wd' = [wd EXCEPT !.pc = "clock"]
    /\ git' = [git EXCEPT !.pc = "op", !.helpers = @ + 1]
    /\ UNCHANGED <<supVars, run, actVars, pipe>>

\* fetch_only(..) or perform_fetch(..) returns, with the repository or the
\* outcome, or with an error, which the closure keeps as a value
GitOpReturns ==
    /\ git.pc = "op"
    /\ \E res \in {"Ok", "Err"} :
        git' = [git EXCEPT !.pc = "cancel", !.res = res, !.done = now]
    /\ UNCHANGED <<supVars, run, actVars, wd, pipe>>

\* an unwrap() ahead of the operation panics (prepare_clone, remote_at,
\* with_refspecs): the closure unwinds and watchdog.cancel() is not reached
GitOpPanics ==
    /\ git.pc = "op"
    /\ git' = [git EXCEPT !.pc = "join", !.res = "Panic", !.done = now]
    /\ UNCHANGED <<supVars, run, actVars, wd, pipe>>

\* the mutant of the closure's end: only a successful operation is followed
\* by watchdog.cancel()
GitCancel_on_success_only ==
    /\ git.pc = "cancel"
    /\ wd' = IF git.res = "Ok"
             THEN [wd EXCEPT !.cancellation = TRUE,
                             !.cancelled = IF @ = NotYet THEN now ELSE @]
             ELSE wd
    /\ git' = [git EXCEPT !.pc = "join"]
    /\ UNCHANGED <<supVars, run, actVars, pipe>>

\* watchdog.cancel(), the statement after the operation, whatever it returned
GitCancel ==
    /\ git.pc = "cancel"
    /\ wd' = [wd EXCEPT !.cancellation = TRUE,
                        !.cancelled = IF @ = NotYet THEN now ELSE @]
    /\ git' = [git EXCEPT !.pc = "join"]
    /\ UNCHANGED <<supVars, run, actVars, pipe>>

\* the end of scope(..): it returns, or goes on unwinding, when the thread
\* spawned in it has ended
GitJoin ==
    /\ git.pc = "join"
    /\ wd.pc = "done"
    /\ git' = [git EXCEPT !.pc = IF git.res = "Panic" THEN "panicked" ELSE "returned",
                          !.returned = now]
    /\ UNCHANGED <<supVars, run, actVars, wd, pipe>>

InitGitCall ==
    /\ now \in 0..1
    /\ once_only = FALSE
    /\ sup = "git"
    /\ state = [t \in Tasks |-> Default]
    /\ worker = [t \in Tasks |-> NoWorker]
    /\ live = [t \in Tasks |-> 0]
    /\ store = [t \in Tasks |-> NoState]
    /\ file = [t \in Tasks |-> NoState]
    /\ tick = NoTick
    /\ run = NoRun
    /\ NoAction
    /\ \E deadline \in 0..MaxTime :
        wd = [Watchdog_new(deadline) EXCEPT !.pc = "new"]
    /\ \E call \in GitCalls :
        git = [pc |-> "scope", call |-> call, res |-> "none", helpers |-> 0,
               done |-> NotYet, returned |-> NotYet]
    /\ pipe = NoPipe

NextGitCall ==
    \/ GitSpawn
    \/ GitOpReturns
    \/ GitOpPanics
    \/ GitCancel
    \/ GitJoin
    \/ RunnerClock
    \/ RunnerLoad
    \/ RunnerWake
    \/ RunnerStore
    \/ Pass

\* the threads are scheduled and time passes
SpecGitCall ==
    /\ InitGitCall /\ [][NextGitCall]_vars
    /\ WF_vars(runner) /\ WF_vars(Pass)
    /\ WF_vars(GitSpawn) /\ WF_vars(GitCancel) /\ WF_vars(GitJoin)

(* ----------------------- environment of commands ----------------------- *)

\* SpecEnv follows the environment of the commands of one call of perform:
\* the variables the actions were configured with, the two perform sets on
\* every action when the commit changed, and what build_command hands to
\* each process.  A commit id stands for its to_string(); an unset variable
\* is None.
EnvNames == {"PATH", "KITOPS_SHA", "KITOPS_LAST_SUCCESSFUL_SHA"}
Environments(vals) == [EnvNames -> {None} \cup {Some(v) : v \in vals}]

\* Action::set_env(key, val): the action's variable `key` becomes `val`,
\* replacing what the configuration gave it
set_env(action, key, val) ==
    [action EXCEPT !.environment = [@ EXCEPT ![key] = Some(val)]]

\* the mutant of build_command: the inherited environment wins over the
\* action's own
build_command_inherited_wins(action, process) ==
    LET base == IF action.inherit_environment
                THEN process
                ELSE [k \in EnvNames |->
                        IF k = "PATH" THEN process[k] ELSE None]
    IN  [k \in EnvNames |->
            IF base[k] # None THEN base[k] ELSE action.environment[k]]

\* build_command, the environment of the Command: the process's own unless
\* env_clear() left only PATH, then `command.envs(action.environment)`
\* over it
build_command(action, process) ==
    LET base == IF action.inherit_environment
                THEN process
                ELSE [k \in EnvNames |->
                        IF k = "PATH" THEN process[k] ELSE None]
    IN  [k \in EnvNames |->
            IF action.environment[k] # None
            THEN action.environment[k]
            ELSE base[k]]

\* two values that are no commit id of the run: one the configuration gives
\* a variable, one the process's own environment gives it
Configured == NumCommits + 1
Inherited == NumCommits + 2

ConfiguredActions ==
    [environment : Environments({Configured}), inherit_environment : BOOLEAN]

\* perform, lines 100-107: the commit changed and every action gets the
\* two variables; otherwise no command runs
SetEnv ==
    /\ run.phase = "env"
    /\ run.pc = "called"
    /\ run' = IF run.prev # run.new
              THEN [run EXCEPT
                      !.pc = "actions",
                      !.actions = [i \in DOMAIN @ |->
                          set_env(set_env(@[i], "KITOPS_LAST_SUCCESSFUL_SHA",
                                          run.prev),
                                  "KITOPS_SHA", run.new)]]
              ELSE [run EXCEPT !.pc = "returned"]
    /\ UNCHANGED <<supVars, actVars, wd, git, pipe>>

\* run_actions reaches the next action and run_action spawns its command;
\* a command that does not succeed ends the run
SpawnCommand ==
    /\ run.phase = "env"
    /\ run.pc = "actions"
    /\ run.next <= Len(run.actions)
    /\ \E ok \in BOOLEAN :
        run' = [run EXCEPT
                  !.spawned = Append(@, build_command(run.actions[run.next],
                                                      run.process)),
                  !.next = @ + 1,
                  !.pc = IF ok THEN "actions" ELSE "returned"]
    /\ UNCHANGED <<supVars, actVars, wd, git, pipe>>

\* run_actions is through the actions
ActionsDone ==
    /\ run.phase = "env"
    /\ run.pc = "actions"
    /\ run.next > Len(run.actions)
    /\ run' = [run EXCEPT !.pc = "returned"]
    /\ UNCHANGED <<supVars, actVars, wd, git, pipe>>

InitEnv ==
    /\ \E n \in 0..MaxActions, prev \in Shas, new \in Commits :
       \E actions \in [1..n -> ConfiguredActions],
          process \in Environments({Inherited}) :
        run = [phase |-> "env", pc |-> "called", prev |-> prev, new |-> new,
               config |-> actions, actions |-> actions, process |-> process,
               next |-> 1, spawned |-> <<>>]
    /\ now = 0
    /\ once_only = FALSE
    /\ sup = "tick"
    /\ state = [t \in Tasks |-> Default]
    /\ worker = [t \in Tasks |-> NoWorker]
    /\ live = [t \in Tasks |-> 0]
    /\ store = [t \in Tasks |-> NoState]
    /\ file = [t \in Tasks |-> NoState]
    /\ tick = NoTick
    /\ NoAction
    /\ wd = NoWatchdog
    /\ git = NoGit
    /\ pipe = NoPipe

NextEnv ==
    \/ SetEnv
    \/ SpawnCommand
    \/ ActionsDone

SpecEnv == InitEnv /\ [][NextEnv]_vars

(* ------------------------------ git mirror ----------------------------- *)

\* SpecFetch follows the branch of each task upstream, its ref in the
\* task's mirror (repo_dir) and the work directory ensure_worktree fills.
\* Commits are numbered along the branch's history: commit k + 1 is the
\* child of commit k, so an upstream that goes from a commit to a lower one
\* was reset, and the lower one is no descendant of the higher.
Descends(a, b) == a >= b

\* the tree of a commit, what checkout writes to the work directory
Tree(c) == <<"tree", c>>

\* the mutant of fetch_repo: the ref moves only forward
fetch_repo_fast_forward(ref, target) ==
    IF ref = None \/ Descends(target, ref[2]) THEN Some(target) ELSE ref

\* fetch_repo after a fetch that succeeded, lines 107-129: the ref
\* refs/heads/<branch> is set to the id the remote reported for it, with
\* PreviousValue::Any
fetch_repo(ref, target) == Some(target)

\* checkout_worktree: the id the branch's ref holds, and its commit's tree
\* in the work directory
checkout_worktree(ref) == [oid |-> ref[2], workdir |-> Tree(ref[2])]

\* upstream's branch moves to another commit: a push, or a reset
Upstream(t) ==
    /\ git # NoGit
    /\ \E c \in Commits \ {git.remote[t]} :
        git' = [git EXCEPT !.remote[t] = c]
    /\ UNCHANGED <<supVars, run, actVars, wd, pipe>>

\* ensure_worktree fails in gix::open, in the fetch or in the clone, and
\* leaves the mirror as it was
EnsureWorktreeFails(t) ==
    /\ git # NoGit
    /\ \E e \in IF git.refs[t] # None
                THEN {"OpenRepo", "FetchError"}
                ELSE {"InitRepo"} :
        git' = [git EXCEPT !.last = [task |-> t, was |-> git.refs[t],
                                     reported |-> None, ret |-> Err(e),
                                     workdir |-> None]]
    /\ UNCHANGED <<supVars, run, actVars, wd, pipe>>

\* ensure_worktree: fetch into the mirror when there is one, clone
\* otherwise, then check the branch out into the run's empty work
\* directory
EnsureWorktree(t) ==
    /\ git # NoGit
    /\ LET target == git.remote[t]
           ref == IF git.refs[t] # None
                  THEN fetch_repo(git.refs[t], target)
                  ELSE Some(target)
           out == checkout_worktree(ref)
       IN  git' = [git EXCEPT
                     !.refs[t] = ref,
                     !.last = [task |-> t, was |-> git.refs[t],
                               reported |-> Some(target),
                               ret |-> OkSha(out.oid),
                               workdir |-> Some(out.workdir)]]
    /\ UNCHANGED <<supVars, run, actVars, wd, pipe>>

InitFetch ==
    /\ \E remote \in [Tasks -> Commits],
          refs \in [Tasks -> {None} \cup {Some(c) : c \in Commits}] :
        git = [remote |-> remote, refs |-> refs, last |-> [task |-> 0]]
    /\ now = 0
    /\ once_only = FALSE
    /\ sup = "tick"
    /\ state = [t \in Tasks |-> Default]
    /\ worker = [t \in Tasks |-> NoWorker]
    /\ live = [t \in Tasks |-> 0]
    /\ store = [t \in Tasks |-> NoState]
    /\ file = [t \in Tasks |-> NoState]
    /\ tick = NoTick
    /\ run = NoRun
    /\ NoAction
    /\ wd = NoWatchdog
    /\ pipe = NoPipe

NextFetch ==
    \/ \E t \in Tasks : Upstream(t)
    \/ \E t \in Tasks : EnsureWorktreeFails(t)
    \/ \E t \in Tasks : EnsureWorktree(t)

SpecFetch == InitFetch /\ [][NextFetch]_vars

(* --------------------------- a reader's bytes -------------------------- *)

\* SpecEmit follows the bytes of one stream of a command through the thread
\* emit_data spawns for it.  The buffer holds BufSize bytes where the code's
\* holds 4096, and starts zeroed; a byte the child writes is 1 or 2.  One
\* read takes any number of the bytes still in the pipe from one up to the
\* buffer's size and overwrites the head of the buffer with them; it
\* returns 0 only at the end of the stream.
Bytes == {1, 2}
Streamed == UNION {[1..k -> Bytes] : k \in 0..MaxBytes}
ZeroedBuf == [i \in 1..BufSize |-> 0]

\* source.read(&mut buf) that returns len: the buffer afterwards
read(buf, source, len) ==
    [i \in 1..BufSize |-> IF i <= len THEN source[i] ELSE buf[i]]

\* the mutant of the payload: the whole buffer, as `buf.into()` gives it
payload_whole_buffer(buf, len) == buf

\* `buf[..len].into()`, the payload of the ActionOutput event
payload(buf, len) == SubSeq(buf, 1, len)

\* the read fails: the thread returns ActionError
EmitReadFails ==
    /\ pipe.pc = "read"
    /\ pipe' = [pipe EXCEPT !.pc = "done", !.res = ActionError]
    /\ UNCHANGED <<supVars, run, actVars, wd, git>>

\* the read returns len > 0 bytes
EmitRead ==
    /\ pipe.pc = "read"
    /\ \E len \in 1..BufSize :
        /\ len <= Len(pipe.source)
        /\ pipe' = [pipe EXCEPT
                      !.pc = "emit",
                      !.len = len,
                      !.buf = read(@, pipe.source, len),
                      !.source = SubSeq(@, len + 1, Len(@)),
                      !.reads = Append(@, SubSeq(pipe.source, 1, len))]
    /\ UNCHANGED <<supVars, run, actVars, wd, git>>

\* the read returns 0, the end of the stream: the loop breaks and the
\* thread returns Ok
EmitEof ==
    /\ pipe.pc = "read"
    /\ pipe.source = <<>>
    /\ pipe' = [pipe EXCEPT !.pc = "done", !.len = 0]
    /\ UNCHANGED <<supVars, run, actVars, wd, git>>

\* the sink is called with the ActionOutput event; a watcher's error ends
\* the thread
EmitSend ==
    /\ pipe.pc = "emit"
    /\ \E r \in {NoErr} \cup WatcherErrors("ActionOutput") :
        pipe' = [pipe EXCEPT
                   !.payloads = Append(@, payload(pipe.buf, pipe.len)),
                   !.pc = IF r = NoErr THEN "read" ELSE "done",
                   !.res = r]
    /\ UNCHANGED <<supVars, run, actVars, wd, git>>

InitEmit ==
    /\ \E source \in Streamed :
        pipe = [pc |-> "read", source |-> source, buf |-> ZeroedBuf,
                len |-> 0, reads |-> <<>>, payloads |-> <<>>, res |-> NoErr]
    /\ now = 0
    /\ once_only = FALSE
    /\ sup = "tick"
    /\ state = [t \in Tasks |-> Default]
    /\ worker = [t \in Tasks |-> NoWorker]
    /\ live = [t \in Tasks |-> 0]
    /\ store = [t \in Tasks |-> NoState]
    /\ file = [t \in Tasks |-> NoState]
    /\ tick = NoTick
    /\ run = NoRun
    /\ NoAction
    /\ wd = NoWatchdog
    /\ git = NoGit

NextEmit ==
    \/ EmitReadFails
    \/ EmitRead
    \/ EmitEof
    \/ EmitSend

SpecEmit == InitEmit /\ [][NextEmit]_vars

(* ------------------------------- claims -------------------------------- *)

\* task u was eligible when the last tick began (the clock stands still
\* during a tick)
Eligible0(u) ==
    tick.worker0[u].st = "none" /\ tick.state0[u].next_run < now

\* task u was finished when the last tick began
Finished0(u) == tick.worker0[u].st = "finished"

\* the last tick left every task but t as it found it
OthersUntouched(t) ==
    \A u \in Tasks \ {t} :
        worker[u] = tick.worker0[u] /\ state[u] = tick.state0[u]

\* C1: each task owns at most one worker. The worker threads started for a
\* task and not yet finalized (starts minus finalizes) number 0 or 1, and 1
\* exactly while the task holds a handle; a tick that starts a task found
\* it without a handle, whatever its next_run.
C1_AtMostOneWorker ==
    /\ \A t \in Tasks :
        /\ live[t] \in {0, 1}
        /\ live[t] = 1 <=> worker[t].st # "none"
    /\ tick.kind = "start" => tick.worker0[tick.task].st = "none"

\* C1 happens: a tick ran while some task held a handle and its next_run
\* had passed, and the task still has one worker.
C1_Witness ==
    /\ tick.kind \in {"running", "finalize"}
    /\ \E t \in Tasks :
        /\ tick.worker0[t].st # "none"
        /\ tick.state0[t].next_run < now
        /\ tick.task # t
        /\ live[t] = 1

\* C2: after a finalize() that joined a successful run, current_sha is the
\* commit id that run returned; after one that joined a failed run,
\* current_sha is what it was. current_sha changes in no other step, so it
\* is the initial or loaded value or the commit of a run finalized with
\* success.
C2_FinalizeSha ==
    /\ [](tick.kind = "finalize" /\ tick.res # Panicked =>
            IF tick.res[1] = "Ok"
            THEN state[tick.task].current_sha = tick.res[2]
            ELSE state[tick.task].current_sha
                     = tick.state0[tick.task].current_sha)
    /\ [][\A t \in Tasks :
            state'[t].current_sha # state[t].current_sha =>
                /\ tick'.kind = "finalize"
                /\ tick'.task = t
                /\ tick'.res = OkSha(state'[t].current_sha)]_vars

\* C2 happens: a finalize joined a successful run and moved current_sha,
\* after an earlier commit had been recorded.
C2_Witness ==
    /\ tick.kind = "finalize"
    /\ tick.res[1] = "Ok"
    /\ tick.state0[tick.task].current_sha # NullSha
    /\ state[tick.task].current_sha # tick.state0[tick.task].current_sha

\* C3 as stated: a tick that finds a task eligible acts on the first
\* eligible task alone, calls start, schedule_next and persist, returns
\* Running, and has the state with next_run = now + interval on file.
C3_Original ==
    tick.kind # "none" /\ (\E u \in Tasks : Eligible0(u)) =>
        LET t == tick.task IN
        /\ tick.kind = "start"
        /\ Eligible0(t) /\ \A u \in Tasks : u < t => ~Eligible0(u)
        /\ OthersUntouched(t)
        /\ tick.calls = <<"start", "schedule_next", "persist">>
        /\ tick.ret = Running
        /\ file[t].next_run = now + Interval(t)

\* C3: a tick that finds a task eligible acts on the first eligible task
\* alone and finalizes nothing. If start() fails the tick returns the
\* WorkDir error and nothing is scheduled or persisted; otherwise it calls
\* start, schedule_next and persist in that order, the worker is running,
\* next_run = now + interval >= now is in the store, and the tick returns
\* Running with that state on file, or the error of persist (SavingState
\* with the file as it was, or SerdeState).
C3_StartTick ==
    tick.kind # "none" /\ (\E u \in Tasks : Eligible0(u)) =>
        LET t == tick.task IN
        /\ tick.kind = "start"
        /\ Eligible0(t) /\ \A u \in Tasks : u < t => ~Eligible0(u)
        /\ OthersUntouched(t)
        /\ tick.ret \in {Running, Err(WorkDir), Err(SavingState), Err(SerdeState)}
        /\ tick.ret = Err(WorkDir) =>
            /\ tick.calls = <<"start">>
            /\ worker[t] = tick.worker0[t] /\ state[t] = tick.state0[t]
            /\ store = tick.store0 /\ file = tick.file0
        /\ tick.ret # Err(WorkDir) =>
            /\ tick.calls = <<"start", "schedule_next", "persist">>
            /\ worker[t].st \in {"running", "finished"}
            /\ state[t].next_run = now + Interval(t)
            /\ state[t].next_run >= now
            /\ state[t].current_sha = tick.state0[t].current_sha
            /\ store[t] = state[t]
        /\ tick.ret = Running => file = store
        /\ tick.ret = Err(SavingState) => file = tick.file0

\* C3 happens: two tasks were eligible, the tick started the first and
\* returned Running.
C3_Witness ==
    /\ tick.kind = "start"
    /\ tick.ret = Running
    /\ \E u \in Tasks : u > tick.task /\ Eligible0(u)

\* C4: a tick that finds no task eligible and some task finished finalizes
\* the first finished task alone. After a successful run it calls persist
\* for the task; after a fatal error it returns that error and run_tasks
\* stops; after a non-fatal error it returns Running, the loop goes on, and
\* the store and the file are as they were.
C4_FinalizeTick ==
    tick.kind # "none" /\ (\A u \in Tasks : ~Eligible0(u))
        /\ (\E u \in Tasks : Finished0(u)) =>
        LET t == tick.task IN
        /\ tick.kind = "finalize"
        /\ Finished0(t) /\ \A u \in Tasks : u < t => ~Finished0(u)
        /\ OthersUntouched(t)
        /\ worker[t] = NoWorker
        /\ tick.res # Panicked /\ tick.res[1] = "Ok" =>
            /\ tick.calls = <<"finalize", "persist">>
            /\ store[t] = state[t]
            /\ tick.ret = Running => file = store /\ sup = "sleep"
        /\ tick.res # Panicked /\ tick.res[1] = "Err" /\ is_fatal(tick.res[2]) =>
            /\ tick.calls = <<"finalize">>
            /\ tick.ret = tick.res
            /\ sup = "failed"
        /\ tick.res # Panicked /\ tick.res[1] = "Err" /\ ~is_fatal(tick.res[2]) =>
            /\ tick.calls = <<"finalize">>
            /\ tick.ret = Running
            /\ sup = "sleep"
            /\ store = tick.store0 /\ file = tick.file0

\* C4 happens: two tasks were finished, the tick finalized the first, whose
\* run had returned a fatal error, and the loop stopped.
C4_Witness ==
    /\ tick.kind = "finalize"
    /\ \E u \in Tasks : u > tick.task /\ Finished0(u)
    /\ tick.res # Panicked /\ tick.res[1] = "Err" /\ is_fatal(tick.res[2])
    /\ sup = "failed"

\* C5 as stated: the tick that finalizes a run that ended with a Git error
\* returns Running, the supervisor keeps ticking, current_sha stays, and
\* the task has no worker, so it is eligible again at its next_run.
C5_GitErrorNonFatal ==
    tick.kind = "finalize" /\ tick.res \in {Err(e) : e \in GitErrors} =>
        /\ tick.ret = Running
        /\ Alive
        /\ state[tick.task] = tick.state0[tick.task]
        /\ worker[tick.task] = NoWorker

\* C6 as stated: a run in which a command could not be spawned, polled,
\* killed or read (and no watcher failed) emits the Error event and returns
\* the underlying error; the tick that finalizes it returns no error, the
\* loop goes on, and current_sha stays.
C6_CommandErrorNonFatal ==
    tick.kind = "finalize" /\ tick.sum.errored /\ ~tick.sum.werr =>
        /\ tick.sum.term # None /\ tick.sum.term[2][1] = "Error"
        /\ tick.res = Err(ActionError)
        /\ tick.ret[1] # "Err"
        /\ Alive
        /\ state[tick.task] = tick.state0[tick.task]

\* C7 as stated: a run in which a command exited non-zero or was killed on
\* timeout emits Failure(task, "<task>|<command>", sha) and returns
\* ActionFailed(task, command); the tick that finalizes it returns Running,
\* moves no state, persists nothing, and leaves the task without a worker.
C7_Original ==
    tick.kind = "finalize" /\ tick.sum.failed # None =>
        LET t == tick.task
            name == tick.sum.failed[2]
        IN
        /\ tick.sum.term # None
        /\ tick.sum.term[2][1] = "Failure"
        /\ tick.sum.term[2][2] = t /\ tick.sum.term[2][3] = name
        /\ tick.res = Err(ActionFailed(t, name))
        /\ tick.ret = Running /\ sup = "sleep"
        /\ state[t] = tick.state0[t]
        /\ store = tick.store0 /\ file = tick.file0
        /\ worker[t] = NoWorker

\* C7: the same, for the runs in which no read of the command's output
\* failed and the sink returned no watcher's error: every such run with a
\* command that exited non-zero or was killed on timeout emits Failure,
\* returns ActionFailed, and is finalized without an error.
C7_FailureNonFatal ==
    tick.kind = "finalize" /\ tick.sum.failed # None
        /\ ~tick.sum.errored /\ ~tick.sum.werr =>
        LET t == tick.task
            name == tick.sum.failed[2]
        IN
        /\ name[1] = t /\ name[2] = "|" /\ name[3] \in 1..NumActions(t)
        /\ tick.sum.term # None
        /\ tick.sum.term[2][1] = "Failure"
        /\ tick.sum.term[2][2] = t /\ tick.sum.term[2][3] = name
        /\ tick.res = Err(ActionFailed(t, name))
        /\ tick.ret = Running /\ sup = "sleep"
        /\ state[t] = tick.state0[t]
        /\ store = tick.store0 /\ file = tick.file0
        /\ worker[t] = NoWorker

\* C7 happens: a tick finalized a run whose second command failed, with no
\* read or watcher error, and returned Running.
C7_Witness ==
    /\ tick.kind = "finalize"
    /\ tick.sum.failed # None /\ tick.sum.failed[2][3] > 1
    /\ ~tick.sum.errored /\ ~tick.sum.werr
    /\ tick.ret = Running

\* C8 as stated: a run in which the sink returned a watcher's error fails
\* without moving current_sha, and the tick that finalizes it returns no
\* error, so the supervisor keeps running.
C8_WatcherErrorNonFatal ==
    tick.kind = "finalize" /\ tick.sum.werr =>
        /\ tick.res[1] = "Err"
        /\ state[tick.task] = tick.state0[tick.task]
        /\ tick.ret[1] # "Err"
        /\ Alive

\* the number of events of evs whose kind is in kinds
CountKinds(evs, kinds) ==
    Cardinality({i \in 1..Len(evs) : evs[i][1] \in kinds})

\* C9 as stated: a run that emitted Changes emitted exactly one terminal
\* event, whatever the watchers returned; a run that did not emitted none.
C9_Original ==
    run.phase = "returned" =>
        CountKinds(run.out.evs, TerminalKinds)
            = IF CountKinds(run.out.evs, {"Changes"}) > 0 THEN 1 ELSE 0

\* C9: a run emits Changes at most once, and first. If the sink returned no
\* error for it, the run emits exactly one terminal event; if no
\* Changes was emitted, or the sink returned a watcher's error for it, the
\* run emits no terminal event.
C9_OneTerminal ==
    run.phase = "returned" =>
        LET evs == run.out.evs
            accepted == run.out.changes = "accepted"
        IN
        /\ CountKinds(evs, {"Changes"}) = IF run.out.changes = "none" THEN 0 ELSE 1
        /\ run.out.changes # "none" => evs[1][1] = "Changes"
        /\ CountKinds(evs, TerminalKinds) = IF accepted THEN 1 ELSE 0

\* C9 happens: a run emitted Changes, ran two commands of which the second
\* failed, and emitted its one terminal event.
C9_Witness ==
    /\ run.phase = "returned"
    /\ run.out.changes = "accepted"
    /\ Len(run.out.children) = 2
    /\ CountKinds(run.out.evs, TerminalKinds) = 1

\* C10 as stated: a run whose Git phase obtained the commit it was given
\* emits no event, spawns no command, deletes the work directory and
\* returns that commit id.
C10_Original ==
    run.phase = "returned" /\ run.out.fetched /\ run.out.new = run.prev =>
        /\ run.out.evs = <<>>
        /\ run.out.children = <<>>
        /\ run.out.removed
        /\ run.out.r = OkSha(run.prev)

\* C10: a run whose Git phase obtained the commit it was given emits no
\* event and spawns no command; it returns that commit id if it could
\* delete the work directory, and the WorkDir error if it could not.
C10_NoChange ==
    run.phase = "returned" /\ run.out.fetched /\ run.out.new = run.prev =>
        /\ run.out.evs = <<>>
        /\ run.out.children = <<>>
        /\ run.out.r = IF run.out.removed THEN OkSha(run.prev) ELSE Err(WorkDir)

\* C10 happens: a workload with commands fetched the commit it had, deleted
\* the work directory and returned the commit.
C10_Witness ==
    /\ run.phase = "returned"
    /\ run.n > 0
    /\ run.out.fetched /\ run.out.new = run.prev
    /\ run.out.removed
    /\ run.out.r = OkSha(run.prev)

\* the kinds of the events of one command
CommandKinds == {"ActionOutput", "ActionExit", "Timeout"}

\* C11: the commands of a run are tried in configured order, each after all
\* before it returned Success and emitted their events; the first that
\* returns Failure or an error is the last one tried, and it is the command
\* the Failure event and the ActionFailed error name.
C11_InOrder ==
    run.phase = "returned" =>
        LET ch == run.out.children
            evs == run.out.evs
            k == Len(ch)
        IN
        /\ k <= run.n
        /\ \A i \in 1..k : ch[i].name = <<run.task, "|", i>>
        /\ \A i \in 1..(k - 1) : ch[i].r = ActionSuccess
        /\ k < run.n /\ run.out.changes = "accepted" =>
               k > 0 /\ ch[k].r # ActionSuccess
        /\ \A i, j \in 1..Len(evs) :
               i < j /\ evs[i][1] \in CommandKinds /\ evs[j][1] \in CommandKinds
                   => evs[i][2][3] <= evs[j][2][3]
        /\ \A i \in 1..Len(evs) :
               evs[i][1] = "Failure" =>
                   k > 0 /\ evs[i][3] = ch[k].name /\ ch[k].r = ActionFailure
        /\ run.out.r[1] = "Err" /\ run.out.r[2][1] = "ActionFailed" =>
               /\ k > 0 /\ ch[k].r = ActionFailure
               /\ run.out.r[2] = ActionFailed(run.task, ch[k].name)

\* C11 happens: the first of two commands returned Failure, the second was
\* not tried, and the run returned ActionFailed naming the first.
C11_Witness ==
    /\ run.phase = "returned"
    /\ run.n = 2
    /\ Len(run.out.children) = 1
    /\ run.out.children[1].r = ActionFailure
    /\ run.out.r = Err(ActionFailed(run.task, <<run.task, "|", 1>>))

\* where an event belongs in a run of n commands: Changes, then the events
\* of command 1, 2, ..., then the terminal event
EventRank(e, n) ==
    IF e[1] = "Changes" THEN 0
    ELSE IF e[1] \in CommandKinds THEN e[2][3]
    ELSE n + 1

\* C12 as stated: the events of a run reach the watchers in the order
\* Changes, the events of the commands in configured order, the terminal
\* event; no event of a command comes before Changes or after the terminal
\* event.
C12_EventOrder ==
    run.phase = "returned" =>
        LET evs == run.out.evs IN
        \A i, j \in 1..Len(evs) :
            i < j => EventRank(evs[i], run.n) <= EventRank(evs[j], run.n)

\* run_action has returned to run_actions
RunActionReturned == main.pc # "none" /\ main.ret # None

\* the positions in the log where the delivery of an event of these kinds
\* began (its call of the first watcher)
Deliveries(kinds) ==
    {i \in 1..Len(log) : log[i].w = 1 /\ log[i].ev[1] \in kinds}

\* C13 as stated: for every invocation of run_action exactly one of
\* ActionExit or Timeout is emitted, once, after every ActionOutput event of
\* the invocation's readers.
C13_Original ==
    RunActionReturned =>
        /\ Cardinality(Deliveries({"ActionExit", "Timeout"})) = 1
        /\ \A i \in Deliveries({"ActionExit", "Timeout"}) :
            \A j \in Deliveries({"ActionOutput"}) : j < i

\* C13: an invocation of run_action emits at most one of ActionExit or
\* Timeout; once it has returned it has emitted exactly one if both reader
\* threads were joined without an error, and none otherwise (spawn, try_wait
\* or kill failed, or a reader returned an error). The one emitted comes
\* after every ActionOutput event of the invocation, however the two readers
\* and the polling loop interleave.
C13_ExitOnce ==
    /\ Cardinality(Deliveries({"ActionExit", "Timeout"})) <= 1
    /\ \A i \in Deliveries({"ActionExit", "Timeout"}) :
        /\ main.joined = 2
        /\ \A j \in Deliveries({"ActionOutput"}) : j < i
    /\ RunActionReturned =>
        (Cardinality(Deliveries({"ActionExit", "Timeout"})) = 1 <=> main.joined = 2)
    /\ main.joined = 2 <=>
        /\ main.path \in {"exit", "timeout"}
        /\ \A s \in Streams : rd[s].pc = "done" /\ rd[s].res = NoErr
        /\ main.pc \notin {"join_out", "join_err"}

\* C13 happens: both readers delivered output, in turn, and the command's
\* ActionExit followed.
C13_Witness ==
    /\ RunActionReturned
    /\ \E i, j, k \in 1..Len(log) :
        /\ i < j /\ j < k
        /\ log[i].ev = ActionOutput(Name, "StdErr")
        /\ log[j].ev = ActionOutput(Name, "StdOut")
        /\ log[k].ev[1] = "ActionExit"

\* the run under study has ended with the terminal Failure event for the
\* command and an error, so that finalize leaves current_sha alone
EndedInFailure ==
    /\ Deliveries({"Failure"}) # {}
    /\ \A i \in Deliveries(TerminalKinds) :
        log[i].ev = Failure(main.task, Name, main.new)
    /\ main.out[1] = "Err"
    /\ finalize(Default, main.out) = Default

\* C14 as stated: if the child has not exited when the clock passes the
\* deadline, run_action kills it, joins both readers, emits Timeout(name)
\* and no ActionExit, and returns Failure; the run ends with the terminal
\* Failure event and current_sha is not advanced.
C14_Original ==
    main.pc = "returned" /\ child.overran =>
        /\ child.st = "killed"
        /\ main.joined = 2
        /\ Deliveries({"Timeout"}) # {}
        /\ Deliveries({"ActionExit"}) = {}
        /\ main.ret = ActionFailure
        /\ EndedInFailure

\* C14: run_action kills the child only when a poll finds that it has not
\* exited and the clock has passed the deadline. After a kill that
\* succeeded it joins both readers; Timeout(name) is emitted only then, once
\* and with no ActionExit, if neither reader returned an error; run_action
\* then returns Failure unless a watcher returned an error for Timeout, and
\* the run ends with the terminal Failure event and an error, current_sha not
\* advanced.
C14_Timeout ==
    /\ main.path = "timeout" =>
        /\ child.st = "killed"
        /\ expired
        /\ Deliveries({"ActionExit"}) = {}
    /\ Deliveries({"Timeout"}) # {} =>
        /\ main.path = "timeout"
        /\ main.joined = 2
        /\ \A i \in Deliveries({"Timeout"}) : log[i].ev = Timeout(Name)
    /\ RunActionReturned /\ main.path = "timeout" =>
        /\ main.joined = 2 <=> Cardinality(Deliveries({"Timeout"})) = 1
        /\ main.ret = ActionFailure <=>
            /\ main.joined = 2
            /\ \A i \in 1..Len(log) : log[i].ev = Timeout(Name) => log[i].r = NoErr
        /\ main.ret # ActionSuccess
    /\ main.pc = "returned" /\ main.path = "timeout" /\ main.ret = ActionFailure =>
        EndedInFailure

\* C14 happens: the deadline passed while the child ran, it was killed, a
\* reader had delivered output, Timeout was emitted and the run ended in
\* Failure.
C14_Witness ==
    /\ main.pc = "returned"
    /\ child.overran
    /\ child.st = "killed"
    /\ main.ret = ActionFailure
    /\ Deliveries({"ActionOutput"}) # {}
    /\ Deliveries({"Timeout"}) # {}
    /\ main.out = Err(ActionFailed(main.task, Name))

\* C15 as stated: on every path on which run_action returns after the child
\* was spawned (exit, timeout, an error from try_wait, from kill, from a
\* reader or from the sink) the child has been reaped or killed.
C15_ChildGone ==
    RunActionReturned /\ main.how # "spawn" =>
        child.st \in {"reaped", "killed"}

\* the threads that are inside the sink, calling watchers
Delivering ==
    (IF main.pc = "deliver" THEN {"main"} ELSE {})
    \cup {s \in Streams : rd[s].pc = "deliver"}

\* the call of the log at position i ended the traversal it belongs to
LastCall(i) == log[i].r # NoErr \/ log[i].w = Len(Watchers)

\* C16: watchers are never called concurrently. At most one thread is inside
\* the sink, and it is the one that holds the Mutex; the calls of watchers
\* for one event are consecutive: a traversal begins only after the one
\* before it has ended, and goes on from the call made just before.
C16_Serialized ==
    /\ Cardinality(Delivering) <= 1
    /\ Delivering = IF lock = "free" THEN {} ELSE {lock}
    /\ lock # "free" => cur.by = lock /\ cur.idx \in 1..Len(Watchers)
    /\ \A i \in 2..Len(log) :
        IF log[i].w = 1
        THEN LastCall(i - 1)
        ELSE /\ ~ LastCall(i - 1)
             /\ log[i - 1].w = log[i].w - 1
             /\ log[i - 1].ev = log[i].ev
             /\ log[i - 1].by = log[i].by
    /\ log # <<>> =>
        IF lock # "free" /\ cur.idx > 1
        THEN /\ ~ LastCall(Len(log))
             /\ log[Len(log)].by = lock
             /\ log[Len(log)].w = cur.idx - 1
        ELSE LastCall(Len(log))

\* C16 happens: one reader is half way through the watcher list while the
\* other reader and the workload thread both wait for the sink with an
\* event of their own.
C16_Witness ==
    /\ main.pc = "emit"
    /\ rd["StdOut"].pc = "lock"
    /\ rd["StdErr"].pc = "deliver"
    /\ cur.idx = 2

\* the error r that a watcher returned for event ev has come back to the
\* thread that emitted it: a reader thread ends with it, run_action returns
\* it for ActionExit and Timeout, perform returns it as a NotifyError
ReturnedTo(by, ev, r) ==
    IF by \in Streams
    THEN rd[by] = [pc |-> "done", res |-> r]
    ELSE IF ev[1] \in CommandKinds
    THEN main.ret = Err(r)
    ELSE main.pc = "returned" /\ main.out = Err(NotifyError(Display(r)))

\* C17: the sink calls the watchers in registration order, from the first
\* on; a watcher is called for an event only if the one registered before it
\* was called for the same event just before and returned no error; an
\* error of a watcher is what the emitter of the event gets back.
C17_ShortCircuit ==
    /\ \A i \in 1..Len(log) :
        /\ log[i].w \in 1..Len(Watchers)
        /\ log[i].r \in watcher_call(Watchers[log[i].w], log[i].ev)
        /\ log[i].w > 1 =>
            /\ i > 1
            /\ log[i - 1].w = log[i].w - 1
            /\ log[i - 1].ev = log[i].ev
            /\ log[i - 1].by = log[i].by
            /\ log[i - 1].r = NoErr
        /\ log[i].r # NoErr => ReturnedTo(log[i].by, log[i].ev, log[i].r)
    /\ log # <<>> => log[1].w = 1

\* C17 happens: the first watcher returned an error for the run's terminal
\* event, the second never saw that event, perform returned the error, and
\* the next call of a watcher was for another event.
C17_Witness ==
    \E i \in 1..(Len(log) - 1) :
        /\ log[i].w = 1
        /\ log[i].ev[1] \in TerminalKinds
        /\ log[i].r \in GitHubErrors
        /\ log[i + 1].w = 1
        /\ main.out = Err(NotifyError(Display(log[i].r)))

\* the start of the process is over and run_tasks begins
Started == sup = "tick" /\ tick = NoTick

\* C18 as stated: after set_state(s) the task's next_run is never later than
\* now + interval, and its current_sha is that of s.
C18_Clamped ==
    Started =>
        \A t \in Tasks :
            get(t) # None =>
                /\ state[t].next_run <= now + Interval(t)
                /\ state[t].current_sha = get(t)[2].current_sha

\* C19: of is_eligible, is_running and is_finished at most one holds for a
\* task; the task holds a worker handle exactly when it is running or
\* finished; an eligible task holds no handle and its next_run is not later
\* than now, and a task without a handle is eligible as soon as the clock
\* has passed its next_run. The handle changes only along none -> running
\* (a start, of a task that was eligible) -> finished (the thread ends) ->
\* none (a finalize).
C19_Lifecycle ==
    /\ [](\A t \in Tasks :
            /\ ~ (is_eligible(t) /\ is_running(t))
            /\ ~ (is_eligible(t) /\ is_finished(t))
            /\ ~ (is_running(t) /\ is_finished(t))
            /\ worker[t].st # "none" <=> is_running(t) \/ is_finished(t)
            /\ is_eligible(t) => worker[t].st = "none" /\ state[t].next_run <= now
            /\ worker[t].st = "none" /\ state[t].next_run < now => is_eligible(t))
    /\ [][\A t \in Tasks :
            worker'[t].st # worker[t].st =>
                \/ /\ is_eligible(t)
                   /\ worker'[t].st = "running"
                   /\ tick'.kind = "start" /\ tick'.task = t
                \/ /\ is_running(t)
                   /\ worker'[t].st = "finished"
                \/ /\ is_finished(t)
                   /\ worker'[t].st = "none"
                   /\ tick'.kind = "finalize" /\ tick'.task = t]_vars

\* C19 happens: a finalize took the handle of a task that had been started,
\* had run and had finished, and the task, its next_run passed, is eligible
\* again.
C19_Witness ==
    /\ tick.kind = "finalize"
    /\ tick.worker0[tick.task].st = "finished"
    /\ worker[tick.task].st = "none"
    /\ is_eligible(tick.task)
    /\ \E u \in Tasks : is_running(u)

\* the names the store holds an entry for
Keys(m) == {id \in DOMAIN m : m[id] # NoState}

\* C20 as stated: after startup the store holds exactly the configured task
\* names: no entry for a name that is not configured, and an entry for
\* every configured task.
C20_Original ==
    Started => Keys(store) = Tasks

\* C20: after startup the store holds no entry for a name that is not
\* configured, and for every configured task exactly the entry the state
\* file held for it: a configured task the file did not know has no entry
\* (it gets one when it is first persisted), and it keeps its default State,
\* while a task with an entry has taken that State.
C20_Pruned ==
    Started =>
        /\ Keys(store) = Keys(file) \cap Tasks
        /\ \A t \in Tasks :
            /\ store[t] = file[t]
            /\ state[t] = IF t \in Keys(file) THEN file[t] ELSE Default

\* C20 happens: startup dropped the entry of a task that is no longer
\* configured, kept the entry of a configured one, and a configured task
\* the file did not know has none.
C20_Witness ==
    /\ Started
    /\ Keys(file) \ Tasks # {}
    /\ Keys(store) # {}
    /\ Tasks \ Keys(store) # {}

\* C21: loading a store, pruning it with retain and persisting every task
\* with its State unchanged yields a mapping whose keys are the task ids.
\* retain leaves the entries it keeps as they were loaded; persist(id, task)
\* sets the entry of id to the task's State and changes no other entry, and
\* when it returns without an error the file holds the mapping.
C21_RoundTrip ==
    /\ sup = "restore" =>
        \A id \in Keys(store) : id \in Tasks /\ store[id] = file[id]
    /\ tick.kind = "persist" =>
        /\ store[tick.task] = state[tick.task]
        /\ \A id \in Names \ {tick.task} : store[id] = tick.store0[id]
        /\ tick.ret = Running => file = store
        /\ Persisted \subseteq Keys(store)
        /\ Persisted = Tasks =>
            /\ Keys(store) = Tasks
            /\ \A t \in Tasks : store[t] = state[t]

\* C21 happens: the state file held a task that is no longer configured and
\* lacked a configured one, every task has been persisted, and the file
\* holds exactly the configured tasks.
C21_Witness ==
    /\ tick.kind = "persist"
    /\ Persisted = Tasks
    /\ tick.ret = Running
    /\ Keys(file) = Tasks
    /\ \E t \in Tasks : state[t] = Default
    /\ \E t \in Tasks : state[t] # Default

\* run_tasks returns Ok exactly at a tick that returned Idle in once-only
\* mode, never after one that returned Running and never when once-only is
\* off
ReturnsAtIdle ==
    /\ sup = "returned" => once_only /\ tick.kind = "idle" /\ tick.ret = Idle
    /\ once_only /\ tick.kind # "none" /\ tick.ret = Idle => sup = "returned"
    /\ tick.kind # "none" /\ tick.ret = Running => sup = "sleep"
    /\ ~ once_only => sup # "returned"

C23_SleepOnlyIdle ==
    sup = "sleep" => tick.ret = Idle /\ ~ once_only

\* what holds of the Watchdog's flag in every state: it is false from
\* construction until cancel() or the runner's final store, cancel() leaves
\* it true, and a runner that returned left it true and returned at or
\* after the deadline or after a call of cancel()
FlagAndReturn ==
    wd # NoWatchdog =>
        /\ wd.cancellation <=> (wd.cancelled # NotYet \/ wd.pc = "done")
        /\ wd.pc = "done" =>
            \/ wd.returned >= wd.deadline
            \/ wd.cancelled # NotYet /\ wd.cancelled <= wd.returned

\* the runner leaves its loop exactly when its reading of the clock shows
\* the deadline reached or its load of the flag shows it set
LoopExit ==
    /\ wd.pc = "clock" /\ wd'.pc # "clock" =>
        wd'.pc = IF now >= wd.deadline THEN "store" ELSE "load"
    /\ wd.pc = "load" /\ wd'.pc # "load" =>
        wd'.pc = IF wd.cancellation THEN "store" ELSE "sleep"

\* C24 as stated, the last sentence: a runner that returned after a
\* cancel() issued before the deadline returned before the deadline.
C24_Original ==
    wd # NoWatchdog /\ wd.pc = "done" /\ wd.cancelled # NotYet
        /\ wd.cancelled < wd.deadline
    => wd.returned < wd.deadline

\* C24: the flag is false at construction, cancel() sets it at once, once
\* true it stays true, and it is true when the runner has returned; the
\* runner leaves its loop exactly when it reads the deadline reached or the
\* flag set, so it has returned only at or after the deadline or after a
\* cancel(), and it always returns in the end.  A cancel() is noticed at
\* the runner's next load of the flag, after the sleep it may be in: that
\* may be at or after the deadline.
C24_Watchdog ==
    /\ [] FlagAndReturn
    /\ [][wd # NoWatchdog /\ wd.cancellation => wd'.cancellation]_vars
    /\ [][wd # NoWatchdog => LoopExit]_vars
    /\ <>(wd.pc = "done")

\* the runner returned before the deadline because of a cancel()
C24_Witness ==
    /\ wd # NoWatchdog
    /\ wd.pc = "done"
    /\ wd.cancelled # NotYet
    /\ wd.returned < wd.deadline

\* C25: every command spawned in a run has KITOPS_SHA set to the run's new
\* commit id and KITOPS_LAST_SUCCESSFUL_SHA to the previous one, whatever
\* the action's configuration and the inherited environment give these
\* names; when the first command is spawned every action of the run
\* already carries the two values.
C25_ShaEnv ==
    run.phase = "env" =>
        /\ \A i \in 1..Len(run.spawned) :
            /\ run.spawned[i]["KITOPS_SHA"] = Some(run.new)
            /\ run.spawned[i]["KITOPS_LAST_SUCCESSFUL_SHA"] = Some(run.prev)
        /\ run.spawned # <<>> =>
            \A i \in 1..Len(run.actions) :
                /\ run.actions[i].environment["KITOPS_SHA"] = Some(run.new)
                /\ run.actions[i].environment["KITOPS_LAST_SUCCESSFUL_SHA"]
                    = Some(run.prev)

\* two commands were spawned; the second was configured with another
\* KITOPS_SHA and another KITOPS_LAST_SUCCESSFUL_SHA and inherits an
\* environment that sets both
C25_Witness ==
    /\ run.phase = "env"
    /\ Len(run.spawned) = 2
    /\ run.config[2].inherit_environment
    /\ \A k \in {"KITOPS_SHA", "KITOPS_LAST_SUCCESSFUL_SHA"} :
        /\ run.config[2].environment[k] = Some(Configured)
        /\ run.process[k] = Some(Inherited)

\* C26: when ensure_worktree has returned Ok for a task that had a mirror,
\* the mirror's ref of the branch is the commit the remote reported,
\* whether or not that commit descends from the ref's previous value, and
\* the id returned and the tree checked out are that commit's.
C26_ForcedUpdate ==
    git # NoGit /\ git.last.task # 0 /\ git.last.ret[1] = "Ok" =>
        LET t == git.last.task
            tip == git.last.reported[2]
        IN  /\ git.refs[t] = Some(tip)
            /\ git.last.ret = OkSha(tip)
            /\ git.last.workdir = Some(Tree(tip))

\* upstream was reset from commit 2 to commit 1 and the mirror, which held
\* commit 2, was fetched into
C26_Witness ==
    /\ git # NoGit
    /\ git.last.task # 0
    /\ git.last.was = Some(2)
    /\ git.last.reported = Some(1)
    /\ git.last.ret = OkSha(1)

\* perform has returned from a call for a task without commands that found
\* the branch at another commit than the previous one
NoCommandsChanged ==
    /\ run.phase = "returned"
    /\ run.n = 0
    /\ run.out.fetched
    /\ run.prev # run.out.new

\* C27 as stated: such a run emits Changes and then Success, deletes the
\* work directory and returns the new commit id.
C27_Original ==
    NoCommandsChanged =>
        /\ run.out.evs = <<Changes(run.task, run.prev, run.out.new),
                           Success(run.task, run.out.new)>>
        /\ run.out.removed
        /\ run.out.r = OkSha(run.out.new)

\* C27: such a run sends Changes and, when the watchers accept it, Success
\* for the new commit id right after it, and spawns nothing; when the
\* watchers accept Success too it deletes the work directory and returns
\* the new commit id, or returns the work-directory error when the deletion
\* fails; a watcher's error for either event ends the run with that error
\* and the work directory is left in place.
C27_NoCommands ==
    NoCommandsChanged =>
        LET o == run.out
            changes == Changes(run.task, run.prev, o.new)
        IN
        /\ o.children = <<>>
        /\ o.changes = "accepted" =>
            o.evs = <<changes, Success(run.task, o.new)>>
        /\ o.changes = "rejected" => o.evs = <<changes>> /\ o.werr
        /\ ~ o.werr =>
            \/ o.removed /\ o.r = OkSha(o.new)
            \/ ~ o.removed /\ o.r = Err(WorkDir)
        /\ o.werr => ~ o.removed /\ o.r[1] = "Err" /\ o.r[2][1] = "NotifyError"

\* a run without commands sent Changes and Success, deleted the work
\* directory and returned the new commit id
C27_Witness ==
    /\ NoCommandsChanged
    /\ run.out.removed
    /\ run.out.r = OkSha(run.out.new)
    /\ Len(run.out.evs) = 2

\* perform has returned from a run on whose Success path it came to the
\* deletion of the work directory: the commit changed, every command
\* returned Success and the watchers accepted the Success event
SuccessPath ==
    /\ run.phase = "returned"
    /\ run.out.fetched
    /\ run.prev # run.out.new
    /\ run.out.changes = "accepted"
    /\ ~ run.out.werr
    /\ Len(run.out.children) = run.n
    /\ \A i \in 1..run.n : run.out.children[i].r = ActionSuccess

\* C28: a run returns the new commit id only with the work directory
\* deleted; on the Success path it returns the new commit id when the
\* deletion succeeded and the work-directory error when it failed.
C28_DeleteFirst ==
    /\ run.phase = "returned" /\ run.out.r[1] = "Ok" =>
        run.out.removed /\ run.out.r = OkSha(run.out.new)
    /\ SuccessPath =>
        /\ run.out.evs[Len(run.out.evs)] = Success(run.task, run.out.new)
        /\ run.out.removed => run.out.r = OkSha(run.out.new)
        /\ ~ run.out.removed => run.out.r = Err(WorkDir)

\* every one of two commands returned Success, Success was delivered, and
\* the deletion of the work directory failed: the run returned the
\* work-directory error
C28_Witness ==
    /\ SuccessPath
    /\ run.n = 2
    /\ ~ run.out.removed
    /\ run.out.r = Err(WorkDir)

\* C29 as stated: while the supervisor lives, a task whose worker has
\* finished is finalized in the end, whatever the other tasks do.
C29_Finalized ==
    \A t \in Tasks :
        (worker[t].st = "finished") ~> (worker[t].st # "finished" \/ ~ Alive)

\* the concatenation of the sequences of ss, in order
RECURSIVE Concat(_)
Concat(ss) == IF ss = <<>> THEN <<>> ELSE Head(ss) \o Concat(Tail(ss))

\* the reads whose bytes have been passed to the sink
Sent ==
    IF pipe.pc = "emit"
    THEN SubSeq(pipe.reads, 1, Len(pipe.reads) - 1)
    ELSE pipe.reads

\* C30: the payloads of a stream's ActionOutput events are, in order, the
\* bytes of the reads made on the stream, one event per read: each payload
\* is non-empty and no longer than the buffer, and their concatenation is
\* the sequence of bytes read, nothing dropped, repeated or added from
\* what the buffer held before.
C30_Payloads ==
    pipe # NoPipe =>
        /\ pipe.payloads = Sent
        /\ Concat(pipe.payloads) = Concat(Sent)
        /\ \A i \in 1..Len(pipe.payloads) :
            /\ Len(pipe.payloads[i]) \in 1..BufSize
            /\ \A j \in 1..Len(pipe.payloads[i]) : pipe.payloads[i][j] \in Bytes
        /\ pipe.pc = "done" /\ pipe.res = NoErr /\ pipe.len = 0 =>
            pipe.source = <<>>

\* the stream ended after a read that filled the buffer and a shorter one,
\* which left a byte of the first in the buffer
C30_Witness ==
    /\ pipe # NoPipe
    /\ pipe.pc = "done"
    /\ pipe.res = NoErr
    /\ Len(pipe.payloads) = 2
    /\ Len(pipe.payloads[1]) = BufSize
    /\ Len(pipe.payloads[2]) < BufSize
    /\ pipe.buf[BufSize] # 0

\* C31 as stated: when a tick has returned Idle, and when run_tasks has
\* returned Ok, no task holds a worker handle.
C31_IdleNoHandle ==
    /\ tick.kind # "none" /\ tick.ret = Idle =>
        \A t \in Tasks : worker[t].st = "none"
    /\ sup = "returned" => \A t \in Tasks : worker[t].st = "none"

\* the tasks before t in the slice that hold no handle: those a tick can
\* start before it comes to t
FreeBefore(t) == {u \in Tasks : u < t /\ worker[u].st = "none"}

\* this step is a call of progress_one_task
TickStep == sup = "tick" /\ sup' # "tick"

\* C32: a tick that finds some task eligible finalizes nothing; a tick that
\* finds task t eligible starts t, or fails in start(), or starts a task
\* before t that held no handle, and as long as t stays eligible no task
\* before t gives its handle back: t is started after at most as many
\* ticks as there are tasks up to t.
C32_StartFirst ==
    /\ [][TickStep /\ (\E u \in Tasks : is_eligible(u)) =>
            /\ tick'.kind = "start"
            /\ \A u \in Tasks : worker[u].st # "none" => worker'[u] = worker[u]]_vars
    /\ [][\A t \in Tasks :
            TickStep /\ is_eligible(t) =>
                \/ worker'[t].st = "running" /\ tick'.task = t
                \/ tick'.ret = Err(WorkDir)
                \/ /\ FreeBefore(t)' = FreeBefore(t) \ {tick'.task}
                   /\ tick'.task \in FreeBefore(t)
                   /\ is_eligible(t)']_vars
    /\ [][\A t \in Tasks :
            is_eligible(t) /\ is_eligible(t)' =>
                FreeBefore(t)' \subseteq FreeBefore(t)]_vars

\* a tick started task 1 while task 2 was eligible too, and task 2 waits
C32_Witness ==
    /\ tick.kind = "start"
    /\ tick.task = 1
    /\ tick.ret = Running
    /\ Eligible0(2)
    /\ is_eligible(2)

\* C33 as stated, the count of starts: in once-only mode a tick starts only
\* a task that was never started (its next_run is still the one it was
\* constructed or restored with), so that no task is started twice before
\* run_tasks returns.
C33_StartedOnce ==
    [][once_only /\ TickStep /\ tick'.kind = "start" /\ tick'.ret = Running =>
            state[tick'.task].next_run = 0]_vars

\* C34: when a tick has returned without an error, the store's entry of
\* every task that has one is the task's State in memory, next_run and
\* current_sha, and the state file holds the same.
C34_StoreIsState ==
    tick.kind # "none" /\ tick.ret[1] = "Ok" =>
        \A t \in Tasks :
            store[t] # NoState => store[t] = state[t] /\ file[t] = state[t]

\* a tick finalized a run that returned another commit id, and the store
\* holds the task's new State
C34_Witness ==
    /\ tick.kind = "finalize"
    /\ tick.ret = Running
    /\ state[tick.task].current_sha # tick.state0[tick.task].current_sha
    /\ tick.store0[tick.task] # NoState
    /\ store[tick.task] = state[tick.task]

\* where thread th is in its code
PcOf(th) == IF th = "main" THEN main.pc ELSE rd[th].pc

\* C35: event delivery cannot deadlock. The thread that holds the sink's
\* Mutex is inside the sink's call, never waiting for another thread: the
\* workload thread joins the readers without the Mutex. So, once the child
\* has exited or been killed, both readers terminate and run_action returns.
C35_NoDeadlock ==
    /\ [](\A th \in Streams \cup {"main"} : lock = th => PcOf(th) = "deliver")
    /\ [](main.pc \in {"join_out", "join_err"} => lock # "main")
    /\ main.pc = "join_out" ~>
            RunActionReturned /\ \A s \in Streams : rd[s].pc = "done"
C35_Witness ==
    /\ RunActionReturned
    /\ main.joined = 2
    /\ \A s \in Streams : \E i \in 1..Len(log) : log[i].by = s
    /\ \E i \in 1..Len(log) : log[i].by = "main" /\ log[i].ev[1] \in {"ActionExit", "Timeout"}

\* a poll of run_action leaves the polling loop
PollLeaves == main.pc = "poll" /\ main'.pc # "poll"

\* C36: in each poll of run_action the exit check precedes the deadline
\* check. A child that has exited when it is polled is reaped and reported
\* with ActionExit and its status, also when the deadline has passed; a child
\* is killed and reported with Timeout only at a poll that finds it alive
\* with the clock past the deadline.
C36_ExitFirst ==
    /\ [][PollLeaves /\ child.st = "exited" =>
            \/ main'.path = "exit" /\ child'.st = "reaped" /\ child'.code = child.code
            \/ main'.how = "wait"]_vars
    /\ [][PollLeaves /\ main'.path = "timeout" =>
            child.st = "running" /\ expired /\ child'.st = "killed"]_vars
    /\ [](\A i \in 1..Len(log) :
            /\ log[i].ev[1] = "ActionExit" =>
                main.path = "exit" /\ log[i].ev = ActionExit(Name, child.code)
            /\ log[i].ev[1] = "Timeout" => main.path = "timeout" /\ expired)
C36_Witness ==
    /\ child.overran
    /\ child.st = "reaped"
    /\ main.path = "exit"
    /\ \E i \in 1..Len(log) : log[i].ev = ActionExit(Name, child.code)

\* C37 as stated: a commit whose run failed is retried. The tick that
\* finalizes a run that ended with the Failure or the Error event leaves
\* current_sha at the commit the run started from and the task without a
\* worker, and the supervisor goes on, so that the task is started again
\* from the same commit when its next_run comes.
C37_Retried ==
    /\ tick.kind = "finalize"
    /\ tick.sum.term # None
    /\ tick.sum.term[2][1] \in {"Failure", "Error"}
    => /\ state[tick.task].current_sha = tick.worker0[tick.task].prev
       /\ worker[tick.task] = NoWorker
       /\ Alive

\* the run found the commit it started from
NoChangePath ==
    /\ run.phase = "returned"
    /\ run.out.fetched
    /\ run.prev = run.out.new
    /\ run.out.evs = <<>>

\* C38: the work directory of a run is deleted only on the success and the
\* no-change paths. A run that ended with the Failure or the Error event, or
\* in which a watcher returned an error for Changes or for the terminal
\* event, or that failed before it had a commit, returns an error and leaves
\* its work directory behind.
C38_LeftBehind ==
    run.phase = "returned" =>
        /\ run.out.removed => SuccessPath \/ NoChangePath
        /\ \/ Terminal(run.out.evs) \in {Some(e) : e \in {ev \in {run.out.evs[i] : i \in 1..Len(run.out.evs)} :
                                                ev[1] \in {"Failure", "Error"}}}
           \/ run.out.werr
           \/ ~ run.out.fetched
           => ~ run.out.removed /\ run.out.r[1] # "Ok"
C38_Witness ==
    /\ run.phase = "returned"
    /\ Terminal(run.out.evs) # None
    /\ Terminal(run.out.evs)[2][1] = "Failure"
    /\ ~ run.out.werr
    /\ run.out.r = Err(ActionFailed(run.task, ActionName(run.task, 1)))
    /\ ~ run.out.removed

\* the Git call is past its operation
GitCall == wd # NoWatchdog /\ git.pc \in {"cancel", "join", "returned", "panicked"}

\* C39 as stated: once the Git operation has returned and the watchdog is
\* cancelled, the call returns as soon as its threads are scheduled: the
\* helper is not in a sleep that only the passing of time ends.
C39_Original ==
    GitCall /\ git.res # "Panic" /\ wd.cancelled # NotYet =>
        ~ (wd.pc = "sleep" /\ wd.wake > 0)

\* C39: the Git gateway cancels its watchdog when the operation returned,
\* with a value or with an error, so the helper always terminates, and the
\* call returns once the helper has noticed the cancel: at its next load of
\* the flag, after the sleep of one poll interval it may be in and no other,
\* without waiting for the deadline. A call has at most one helper and none
\* is running when the call has returned. When an unwrap() in the scope
\* panics there is no cancel and the call unwinds after the deadline.
C39_Cancelled ==
    /\ [](GitCall =>
            /\ git.helpers = 1
            /\ git.pc \in {"returned", "panicked"} => wd.pc = "done"
            /\ git.pc \in {"join", "returned"} /\ git.res # "Panic" =>
                    wd.cancelled # NotYet /\ wd.cancelled >= git.done
            /\ git.pc = "panicked" =>
                    wd.cancelled = NotYet /\ wd.returned >= wd.deadline)
    /\ [][GitCall /\ wd.cancelled # NotYet /\ wd'.pc = "sleep" => wd.pc = "sleep"]_vars
    /\ <>(wd # NoWatchdog /\ wd.pc = "done")
    /\ (GitCall ~> git.pc \in {"returned", "panicked"})
C39_Witness ==
    /\ GitCall
    /\ git.pc = "returned"
    /\ git.res = "Err"
    /\ wd.returned < wd.deadline
    /\ git.returned > git.done
====
